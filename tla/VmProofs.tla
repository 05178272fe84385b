------------------------------ MODULE VmProofs ------------------------------
(***************************************************************************)
(* Proofs about the address spaces, for any images a linker makes, any     *)
(* number of processes and any memory that holds init; and about loadelf,  *)
(* for any page and word size, any memory and any program headers.         *)
(***************************************************************************)
EXTENDS Memory, CommonLemmas, FiniteSetTheorems

-----------------------------------------------------------------------------
(***************************************************************************)
(* The invariant.                                                          *)
(***************************************************************************)
Region == [va : Int, pa : Int, n : Nat]

Shapes ==
    /\ proc \in [Procs -> {"none", "live", "dead"}]
    /\ image \in [Procs -> Images]
    /\ regions \in [Procs -> Seq(Region)]
    /\ memsz \in [Procs -> Nat]
    /\ mmapbase \in [Procs -> Nat]
    /\ free \subseteq Frames /\ kern \subseteq Frames /\ free \cap kern = {}
    /\ pid \in Nat /\ pid >= 2
    /\ stray \subseteq Procs

(***************************************************************************)
(* A region lies in memory or in the frame buffer, not across their ends.  *)
(***************************************************************************)
Placed(list) ==
    \A i \in DOMAIN list :
        \/ Run(list[i].pa, list[i].n) \subseteq Frames
        \/ list[i].pa = Device /\ list[i].n <= FbPages

(***************************************************************************)
(* A process has the regions of its image and its stack at least.  With no *)
(* more than those, it is a child that has mapped nothing, whose mmap_base *)
(* is still 0, or the size recorded for it covers them.                    *)
(***************************************************************************)
Sized(p) ==
    /\ Len(regions[p]) >= Len(image[p]) + 1
    /\ Len(regions[p]) = Len(image[p]) + 1 =>
          mmapbase[p] = 0 \/ TotalPages(regions[p]) <= memsz[p]

VmInv ==
    /\ Shapes
    /\ \A p \in Procs : p \notin stray => Placed(regions[p])
    /\ \A p \in Procs : p >= pid => proc[p] = "none" /\ mmapbase[p] = 0
    /\ \A p \in Procs : proc[p] # "none" => Sized(p)
    /\ Isolation
    /\ NoAliasing

-----------------------------------------------------------------------------
(***************************************************************************)
(* Offsets.                                                                *)
(***************************************************************************)

(***************************************************************************)
(* The recursive definition defines a function.                            *)
(***************************************************************************)
IsOffsets(f, steps, mem, n) ==
    f = [i \in 0..n |-> IF i = 0 THEN mem ELSE f[i - 1] + steps[i]]

(***************************************************************************)
(* A function that satisfies the recursive equation exists, so the         *)
(* definition, a CHOOSE, denotes one.                                      *)
(***************************************************************************)
LEMMA OffsetsExist ==
    ASSUME NEW steps \in Seq(Nat), NEW mem \in Int
    PROVE  \E f : IsOffsets(f, steps, mem, Len(steps))
<1> DEFINE Ns == {n \in Nat : \E f : IsOffsets(f, steps, mem, n)}
<1>1. 0 \in Ns
    <2> DEFINE f == [i \in 0..0 |-> mem]
    <2>1. f = [i \in 0..0 |-> IF i = 0 THEN mem ELSE f[i - 1] + steps[i]]
        OBVIOUS
    <2> QED BY <2>1 DEF IsOffsets
<1>2. ASSUME NEW n \in Ns PROVE n + 1 \in Ns
    <2>1. PICK f : IsOffsets(f, steps, mem, n)
        OBVIOUS
    <2> DEFINE g == [i \in 0..(n + 1) |-> IF i <= n THEN f[i] ELSE f[n] + steps[n + 1]]
               e(i) == IF i = 0 THEN mem ELSE g[i - 1] + steps[i]
    <2>2. n \in Nat /\ \A i \in 0..n : f[i] = IF i = 0 THEN mem ELSE f[i - 1] + steps[i]
        BY <2>1 DEF IsOffsets
    <2>3. \A i \in 0..n : g[i] = f[i]
        BY <2>2
    <2>4. g[n + 1] = f[n] + steps[n + 1]
        BY <2>2
    <2>5. ASSUME NEW i \in 0..(n + 1) PROVE g[i] = e(i)
        <3>1. CASE i = n + 1
            <4>1. i - 1 = n /\ n \in 0..n /\ i # 0
                BY <2>2, <3>1
            <4>2. g[i - 1] = f[n]
                BY <2>3, <4>1
            <4> HIDE DEF g
            <4> QED BY <2>4, <3>1, <4>1, <4>2
        <3>2. CASE i \in 0..n /\ i # 0
            <4>1. i - 1 \in 0..n
                BY <2>2, <3>2
            <4> HIDE DEF g
            <4> QED BY <2>2, <2>3, <3>2, <4>1
        <3>3. CASE i = 0
            <4>1. 0 \in 0..n
                BY <2>2
            <4> HIDE DEF g
            <4> QED BY <2>2, <2>3, <3>3, <4>1
        <3> QED BY <2>2, <3>1, <3>2, <3>3
    <2>6. g = [i \in 0..(n + 1) |-> g[i]]
        OBVIOUS
    <2> HIDE DEF g
    <2>7. g = [i \in 0..(n + 1) |-> IF i = 0 THEN mem ELSE g[i - 1] + steps[i]]
        BY <2>5, <2>6
    <2>8. IsOffsets(g, steps, mem, n + 1)
        BY <2>7 DEF IsOffsets
    <2>9. n + 1 \in Nat
        BY <2>2
    <2> QED BY <2>8, <2>9
<1> HIDE DEF Ns
<1>3. Ns = Nat
    <2>1. Ns \in SUBSET Nat
        BY DEF Ns
    <2> QED BY <1>1, <1>2, <2>1, NatInd
<1>4. Len(steps) \in Ns
    BY <1>3
<1> QED BY <1>4 DEF Ns

(***************************************************************************)
(* Offsets satisfies its own defining equation.                            *)
(***************************************************************************)
LEMMA OffsetsDef ==
    ASSUME NEW steps \in Seq(Nat), NEW mem \in Int
    PROVE  IsOffsets(Offsets(steps, mem), steps, mem, Len(steps))
BY OffsetsExist DEF Offsets, IsOffsets

(***************************************************************************)
(* Pieces one after the other: where each begins, that they do not go back *)
(* and that mem only shifts them.                                          *)
(***************************************************************************)
LEMMA OffsetsFacts ==
    ASSUME NEW steps \in Seq(Nat), NEW mem \in Int
    PROVE  /\ Offsets(steps, mem) \in [0..Len(steps) -> Int]
           /\ Offsets(steps, mem)[0] = mem
           /\ \A i \in 1..Len(steps) :
                 Offsets(steps, mem)[i] = Offsets(steps, mem)[i - 1] + steps[i]
<1> DEFINE f == Offsets(steps, mem)
           L == Len(steps)
           Ns == {n \in Nat : n <= L => f[n] \in Int}
<1>1. f = [i \in 0..L |-> IF i = 0 THEN mem ELSE f[i - 1] + steps[i]]
    BY OffsetsDef DEF IsOffsets
<1>2. L \in Nat /\ \A i \in 1..L : steps[i] \in Nat
    OBVIOUS
<1> HIDE DEF f, L
<1>3. f[0] = mem /\ \A i \in 1..L : f[i] = f[i - 1] + steps[i]
    <2>1. \A i \in 0..L : f[i] = IF i = 0 THEN mem ELSE f[i - 1] + steps[i]
        BY <1>1
    <2> QED BY <1>2, <2>1
<1>4. 0 \in Ns
    BY <1>3
<1>5. ASSUME NEW n \in Ns PROVE n + 1 \in Ns
    <2>1. n \in Nat /\ n + 1 \in Nat /\ (n + 1) - 1 = n
        OBVIOUS
    <2>2. ASSUME n + 1 <= L PROVE f[n + 1] \in Int
        <3>1. n + 1 \in 1..L /\ f[n] \in Int
            BY <1>2, <2>1, <2>2
        <3>2. f[n + 1] = f[n] + steps[n + 1] /\ steps[n + 1] \in Nat
            BY <1>2, <1>3, <2>1, <3>1
        <3> QED BY <3>1, <3>2
    <2> QED BY <2>1, <2>2
<1> HIDE DEF Ns
<1>6. Ns = Nat
    <2>1. Ns \in SUBSET Nat
        BY DEF Ns
    <2> QED BY <1>4, <1>5, <2>1, NatInd
<1>7. \A i \in 0..L : f[i] \in Int
    <2>1. \A i \in 0..L : i \in Ns /\ i <= L
        BY <1>2, <1>6
    <2> QED BY <2>1 DEF Ns
<1>8. f = [i \in 0..L |-> f[i]]
    <2>1. \A g : g = [i \in 0..L |-> IF i = 0 THEN mem ELSE f[i - 1] + steps[i]] => g = [i \in 0..L |-> g[i]]
        OBVIOUS
    <2> QED BY <1>1, <2>1
<1>9. f \in [0..L -> Int]
    BY <1>7, <1>8
<1> QED BY <1>3, <1>9 DEF f, L

(***************************************************************************)
(* Pieces have lengths of at least 0: later ones do not begin before       *)
(* earlier ones, and starting from mem adds mem to every one of them.      *)
(***************************************************************************)
LEMMA OffsetsRise ==
    ASSUME NEW steps \in Seq(Nat), NEW mem \in Int
    PROVE  /\ \A i, j \in 0..Len(steps) : i <= j => Offsets(steps, mem)[i] <= Offsets(steps, mem)[j]
           /\ \A i \in 0..Len(steps) : Offsets(steps, mem)[i] = mem + Offsets(steps, 0)[i]
<1> DEFINE f == Offsets(steps, mem)
           z == Offsets(steps, 0)
           L == Len(steps)
           Ns == {n \in Nat : n <= L => f[n] = mem + z[n] /\ \A i \in 0..n : f[i] <= f[n]}
<1>1. /\ f \in [0..L -> Int] /\ f[0] = mem
      /\ \A i \in 1..L : f[i] = f[i - 1] + steps[i]
    BY OffsetsFacts
<1>2. /\ z \in [0..L -> Int] /\ z[0] = 0
      /\ \A i \in 1..L : z[i] = z[i - 1] + steps[i]
    BY OffsetsFacts
<1>3. L \in Nat /\ \A i \in 1..L : steps[i] \in Nat
    OBVIOUS
<1> HIDE DEF f, z, L
<1>4. 0 \in Ns
    BY <1>1, <1>2
<1>5. ASSUME NEW n \in Ns PROVE n + 1 \in Ns
    <2>1. n \in Nat /\ n + 1 \in Nat /\ (n + 1) - 1 = n
        OBVIOUS
    <2>2. ASSUME n + 1 <= L PROVE f[n + 1] = mem + z[n + 1] /\ \A i \in 0..(n + 1) : f[i] <= f[n + 1]
        <3>1. n + 1 \in 1..L /\ n \in 0..L /\ n + 1 \in 0..L /\ n <= L
            BY <1>3, <2>1, <2>2
        <3>2. /\ f[n + 1] = f[n] + steps[n + 1] /\ steps[n + 1] \in Nat /\ z[n + 1] = z[n] + steps[n + 1]
              /\ f[n] \in Int /\ z[n] \in Int /\ f[n] = mem + z[n]
              /\ \A i \in 0..n : f[i] <= f[n]
            BY <1>1, <1>2, <1>3, <2>1, <3>1
        <3>3. f[n + 1] = mem + z[n + 1]
            BY <3>2
        <3>4. ASSUME NEW i \in 0..(n + 1) PROVE f[i] <= f[n + 1]
            <4>1. CASE i = n + 1
                BY <1>1, <3>1, <4>1
            <4>2. CASE i \in 0..n
                <5>1. i \in 0..L
                    BY <1>3, <3>1, <4>2
                <5>2. f[i] <= f[n]
                    BY <3>2, <4>2
                <5>3. f[i] \in Int
                    BY <1>1, <5>1
                <5>4. \A a, b, c, d \in Int : a <= b /\ c = b + d /\ d >= 0 => a <= c
                    OBVIOUS
                <5>5. f[n + 1] \in Int /\ steps[n + 1] >= 0 /\ steps[n + 1] \in Int
                    BY <3>2
                <5> HIDE DEF Ns
                <5> QED BY <3>2, <5>2, <5>3, <5>4, <5>5
            <4> QED BY <2>1, <4>1, <4>2
        <3> QED BY <3>3, <3>4
    <2> QED BY <2>1, <2>2
<1> HIDE DEF Ns
<1>6. Ns = Nat
    <2>1. Ns \in SUBSET Nat
        BY DEF Ns
    <2> QED BY <1>4, <1>5, <2>1, NatInd
<1>7. ASSUME NEW n \in 0..L PROVE f[n] = mem + z[n] /\ \A i \in 0..n : f[i] <= f[n]
    <2>1. n \in Ns /\ n <= L
        BY <1>3, <1>6
    <2> QED BY <2>1 DEF Ns
<1>8. \A i, j \in 0..L : i <= j => f[i] <= f[j]
    <2> SUFFICES ASSUME NEW i \in 0..L, NEW j \in 0..L, i <= j PROVE f[i] <= f[j]
        OBVIOUS
    <2>1. i \in 0..j
        BY <1>3
    <2> QED BY <1>7, <2>1
<1> QED BY <1>7, <1>8 DEF f, z, L

-----------------------------------------------------------------------------
(***************************************************************************)
(* Images.                                                                 *)
(***************************************************************************)

(***************************************************************************)
(* A segment touches at least the pages of its size.                       *)
(***************************************************************************)
LEMMA SegFacts ==
    ASSUME NEW s \in [va : Nat, memsz : Nat], s.va >= PGSIZE, s.memsz > 0
    PROVE  /\ SegFirst(s) \in Nat /\ SegFirst(s) >= 1
           /\ SegPages(s) \in Nat /\ SegPages(s) >= 1
           /\ SegStep(s) \in Nat /\ SegStep(s) <= SegPages(s)
<1>1. s.va \in Nat /\ s.memsz \in Nat
    OBVIOUS
<1>2. SegFirst(s) \in Nat /\ SegFirst(s) >= 1
    BY <1>1 DEF SegFirst, PGSIZE
<1>3. \A x \in Nat : roundup(x) \div PGSIZE = (x + 4095) \div 4096
    BY DEF roundup, PGSIZE
<1>4. s.memsz + (s.va % PGSIZE) \in Nat /\ s.memsz + (s.va % PGSIZE) >= s.memsz
    BY <1>1 DEF PGSIZE
<1>5. SegStep(s) = (s.memsz + 4095) \div 4096
    BY <1>1, <1>3 DEF SegStep
<1>6. SegPages(s) = (s.memsz + (s.va % PGSIZE) + 4095) \div 4096
    BY <1>3, <1>4 DEF SegPages
<1>7. \A x, y \in Nat : x > 0 /\ y >= x =>
        /\ (x + 4095) \div 4096 \in Nat /\ (y + 4095) \div 4096 \in Nat
        /\ (x + 4095) \div 4096 <= (y + 4095) \div 4096 /\ (y + 4095) \div 4096 >= 1
    OBVIOUS
<1> QED BY <1>1, <1>2, <1>4, <1>5, <1>6, <1>7

(***************************************************************************)
(* An image by its segments: they lie in order, so the image ends with the *)
(* last of them and begins with the first.                                 *)
(***************************************************************************)
LEMMA ImageFacts ==
    ASSUME NEW img \in Images
    PROVE  /\ Len(img) \in Nat /\ Len(img) >= 1 /\ DOMAIN img = 1..Len(img)
           /\ \A i \in 1..Len(img) :
                 /\ SegFirst(img[i]) \in Nat /\ SegFirst(img[i]) >= 1
                 /\ SegPages(img[i]) \in Nat /\ SegPages(img[i]) >= 1
                 /\ SegStep(img[i]) \in Nat /\ SegStep(img[i]) <= SegPages(img[i])
           /\ \A i, j \in 1..Len(img) : i < j =>
                 SegFirst(img[i]) + SegPages(img[i]) <= SegFirst(img[j])
           /\ \A i \in 1..Len(img) : SegFirst(img[i]) + SegPages(img[i]) <= ImageEnd(img)
           /\ ImageEnd(img) = SegFirst(img[Len(img)]) + SegPages(img[Len(img)])
           /\ ImageSize(img) = ImageEnd(img) - SegFirst(img[1]) + StackPages
           /\ ImageEnd(img) \in Nat /\ ImageEnd(img) >= 1 /\ ImageSize(img) \in Nat
<1> DEFINE L == Len(img)
<1>1. /\ img \in Seq([va : Nat, memsz : Nat]) /\ L > 0
      /\ \A i \in DOMAIN img : img[i].va >= PGSIZE /\ img[i].memsz > 0
      /\ \A i, j \in DOMAIN img : i < j =>
            SegFirst(img[i]) + SegPages(img[i]) <= SegFirst(img[j])
    BY ImagesAssumption
<1>2. L \in Nat /\ L >= 1 /\ DOMAIN img = 1..L /\ 1 \in 1..L /\ L \in 1..L
    BY <1>1
<1>3. \A i \in 1..L : img[i] \in [va : Nat, memsz : Nat]
    <2>1. \A S : img \in Seq(S) => \A i \in 1..Len(img) : img[i] \in S
        OBVIOUS
    <2> QED BY <1>1, <2>1
<1> HIDE DEF L
<1>4. ASSUME NEW i \in 1..L
      PROVE  /\ SegFirst(img[i]) \in Nat /\ SegFirst(img[i]) >= 1
             /\ SegPages(img[i]) \in Nat /\ SegPages(img[i]) >= 1
             /\ SegStep(img[i]) \in Nat /\ SegStep(img[i]) <= SegPages(img[i])
    <2>1. PICK s \in [va : Nat, memsz : Nat] : s = img[i]
        BY <1>3
    <2>2. s.va >= PGSIZE /\ s.memsz > 0
        BY <1>1, <1>2, <2>1
    <2> QED BY <2>1, <2>2, SegFacts
<1>5. \A i, j \in 1..L : i < j => SegFirst(img[i]) + SegPages(img[i]) <= SegFirst(img[j])
    BY <1>1, <1>2
<1>6. ImageEnd(img) = SegFirst(img[L]) + SegPages(img[L])
    <2> DEFINE S == {SegFirst(img[i]) + SegPages(img[i]) : i \in 1..L}
               m == SegFirst(img[L]) + SegPages(img[L])
    <2>1. ASSUME NEW i \in 1..L PROVE SegFirst(img[i]) + SegPages(img[i]) <= m
        <3>1. CASE i = L
            BY <1>4, <3>1
        <3>2. CASE i < L
            BY <1>2, <1>4, <1>5, <3>2
        <3> QED BY <1>2, <3>1, <3>2
    <2>2. m \in S /\ m \in Int /\ \A y \in S : y \in Int /\ m >= y
        BY <1>2, <1>4, <2>1
    <2>3. ImageEnd(img) = Max(S)
        BY <1>2 DEF ImageEnd
    <2> HIDE DEF S, m
    <2>4. \A x \in S : (\A y \in S : x >= y) => x = m
        BY <2>2
    <2>5. Max(S) = m
        BY <2>2, <2>4 DEF Max
    <2> QED BY <2>3, <2>5 DEF m
<1>7. Min({SegFirst(img[i]) : i \in 1..L}) = SegFirst(img[1])
    <2> DEFINE S == {SegFirst(img[i]) : i \in 1..L}
               m == SegFirst(img[1])
    <2>1. ASSUME NEW i \in 1..L PROVE m <= SegFirst(img[i])
        <3>1. CASE i = 1
            BY <1>4, <3>1
        <3>2. CASE i > 1
            BY <1>2, <1>4, <1>5, <3>2
        <3> QED BY <1>2, <3>1, <3>2
    <2>2. m \in S /\ m \in Int /\ \A y \in S : y \in Int /\ m <= y
        BY <1>2, <1>4, <2>1
    <2> HIDE DEF S, m
    <2>4. \A x \in S : (\A y \in S : x <= y) => x = m
        BY <2>2
    <2>5. Min(S) = m
        BY <2>2, <2>4 DEF Min
    <2> QED BY <2>5 DEF m, S
<1>8. ImageSize(img) = ImageEnd(img) - SegFirst(img[1]) + StackPages
    BY <1>2, <1>7 DEF ImageSize
<1>9. ImageEnd(img) \in Nat /\ ImageEnd(img) >= 1
    BY <1>2, <1>4, <1>6
<1>10. ImageSize(img) \in Nat
    <2>1. SegFirst(img[1]) <= ImageEnd(img)
        <3>1. CASE L = 1
            BY <1>2, <1>4, <1>6, <3>1
        <3>2. CASE L > 1
            BY <1>2, <1>4, <1>5, <1>6, <3>2
        <3> QED BY <1>2, <3>1, <3>2
    <2> QED BY <1>2, <1>4, <1>8, <1>9, <2>1, LayoutAssumption
<1>11. ASSUME NEW i \in 1..L PROVE SegFirst(img[i]) + SegPages(img[i]) <= ImageEnd(img)
    <2>1. CASE i = L
        BY <1>4, <1>6, <2>1
    <2>2. CASE i < L
        BY <1>2, <1>4, <1>5, <1>6, <2>2
    <2> QED BY <1>2, <2>1, <2>2
<1> QED BY <1>2, <1>4, <1>5, <1>6, <1>8, <1>9, <1>10, <1>11 DEF L

-----------------------------------------------------------------------------
(***************************************************************************)
(* Lists of regions.                                                       *)
(***************************************************************************)
Within(list, mem, sz) ==        \* the regions lie in sz pages from mem
    \A k \in 1..Len(list) : mem <= list[k].pa /\ list[k].pa + list[k].n <= mem + sz

Descending(list) ==             \* a later one ends before an earlier begins
    \A k, l \in 1..Len(list) : k < l => list[l].pa + list[l].n <= list[k].pa

(***************************************************************************)
(* The list loadelf builds: the stack, then the segments from the last to  *)
(* the first, each from where the steps of those before it have led.       *)
(***************************************************************************)
Loaded(list, img, off) ==
    /\ list \in Seq(Region) /\ Len(list) = Len(img) + 1
    /\ \A k \in 1..(Len(img) + 1) :
          /\ list[k].va = IF k = 1 THEN KernelPage - StackPages ELSE SegFirst(img[Len(img) + 2 - k])
          /\ list[k].pa = off[Len(img) + 1 - k]
          /\ list[k].n = IF k = 1 THEN StackPages ELSE SegPages(img[Len(img) + 2 - k])

Steps(img) == [i \in DOMAIN img |-> SegStep(img[i])]

(***************************************************************************)
(* The steps loadelf moves mem by, one for each segment.                   *)
(***************************************************************************)
LEMMA StepsFacts ==
    ASSUME NEW img \in Images
    PROVE  /\ Steps(img) \in Seq(Nat) /\ Len(Steps(img)) = Len(img)
           /\ \A i \in 1..Len(img) : Steps(img)[i] = SegStep(img[i])
<1> DEFINE L == Len(img)
<1>1. L \in Nat /\ DOMAIN img = 1..L /\ \A i \in 1..L : SegStep(img[i]) \in Nat
    BY ImageFacts
<1> HIDE DEF L
<1>2. Steps(img) = [i \in 1..L |-> SegStep(img[i])]
    BY <1>1 DEF Steps
<1>3. Steps(img) \in Seq(Nat) /\ Len(Steps(img)) = L
    BY <1>1, <1>2
<1> QED BY <1>1, <1>2, <1>3 DEF L

(***************************************************************************)
(* Layout is that list.                                                    *)
(***************************************************************************)
LEMMA LayoutLoaded ==
    ASSUME NEW img \in Images, NEW mem \in Int
    PROVE  Loaded(Layout(img, mem), img, Offsets(Steps(img), mem))
<1> DEFINE L == Len(img)
           off == Offsets(Steps(img), mem)
           seg(i) == [va |-> SegFirst(img[i]), pa |-> off[i - 1], n |-> SegPages(img[i])]
           segs == [i \in 1..L |-> seg(i)]
           stack == [va |-> KernelPage - StackPages, pa |-> off[L], n |-> StackPages]
           app == Append(segs, stack)
<1>1. /\ L \in Nat /\ L >= 1 /\ DOMAIN img = 1..L
      /\ \A i \in 1..L : SegFirst(img[i]) \in Nat /\ SegPages(img[i]) \in Nat
    BY ImageFacts
<1>2. off \in [0..L -> Int]
    BY StepsFacts, OffsetsFacts
<1>3. Layout(img, mem) = Reverse(app)
    BY <1>1 DEF Layout, Steps, NextMem
<1> HIDE DEF off, L
<1>4. ASSUME NEW i \in 1..L PROVE seg(i) \in Region
    <2>1. i - 1 \in 0..L
        BY <1>1
    <2> QED BY <1>1, <1>2, <2>1 DEF Region
<1>5. stack \in Region
    <2>1. L \in 0..L
        BY <1>1
    <2> QED BY <1>2, <2>1, LayoutAssumption DEF Region
<1> HIDE DEF stack, seg
<1>6. segs \in Seq(Region) /\ Len(segs) = L /\ \A i \in 1..L : segs[i] = seg(i)
    BY <1>1, <1>4
<1> HIDE DEF segs
<1>7. /\ app \in Seq(Region) /\ Len(app) = L + 1
      /\ app[L + 1] = stack /\ \A i \in 1..L : app[i] = seg(i)
    BY <1>1, <1>5, <1>6
<1> HIDE DEF app
<1>8. Reverse(app) = [k \in 1..(L + 1) |-> app[((L + 1) - k) + 1]]
    BY <1>7 DEF Reverse
<1>9. \A k \in 1..(L + 1) : ((L + 1) - k) + 1 \in 1..(L + 1)
    BY <1>1
<1>10. \A k \in 1..(L + 1) : app[((L + 1) - k) + 1] \in Region
    <2>1. \A k \in 1..(L + 1) : app[k] \in Region
        BY <1>7
    <2> QED BY <1>9, <2>1
<1>11. /\ Reverse(app) \in Seq(Region) /\ Len(Reverse(app)) = L + 1
       /\ \A k \in 1..(L + 1) : Reverse(app)[k] = app[((L + 1) - k) + 1]
    BY <1>1, <1>8, <1>10
<1>12. ASSUME NEW k \in 1..(L + 1)
       PROVE  /\ app[((L + 1) - k) + 1].va =
                    IF k = 1 THEN KernelPage - StackPages ELSE SegFirst(img[L + 2 - k])
              /\ app[((L + 1) - k) + 1].pa = off[L + 1 - k]
              /\ app[((L + 1) - k) + 1].n = IF k = 1 THEN StackPages ELSE SegPages(img[L + 2 - k])
    <2>1. CASE k = 1
        <3>1. ((L + 1) - k) + 1 = L + 1 /\ L + 1 - k = L
            BY <1>1, <2>1
        <3> QED BY <1>7, <2>1, <3>1 DEF stack
    <2>2. CASE k # 1
        <3>1. PICK i \in 1..L : i = L + 2 - k
            BY <1>1, <2>2
        <3>2. ((L + 1) - k) + 1 = i /\ L + 1 - k = i - 1
            BY <1>1, <3>1
        <3>3. app[i].va = SegFirst(img[i]) /\ app[i].pa = off[i - 1] /\ app[i].n = SegPages(img[i])
            <4>1. app[i] = seg(i)
                BY <1>7
            <4>2. seg(i).va = SegFirst(img[i]) /\ seg(i).pa = off[i - 1] /\ seg(i).n = SegPages(img[i])
                BY DEF seg
            <4> QED BY <4>1, <4>2
        <3> QED BY <2>2, <3>1, <3>2, <3>3
    <2> QED BY <2>1, <2>2
<1>13. Loaded(Reverse(app), img, off)
    BY <1>11, <1>12 DEF Loaded, L
<1> QED BY <1>3, <1>13 DEF off

(***************************************************************************)
(* The steps never outrun the segments' own pages: where a segment is put, *)
(* counted from mem, is no farther than where it lies in the image.        *)
(***************************************************************************)
LEMMA StepsBehind ==
    ASSUME NEW img \in Images
    PROVE  /\ \A i \in 1..Len(img) :
                 Offsets(Steps(img), 0)[i - 1] <= SegFirst(img[i]) - SegFirst(img[1])
           /\ Offsets(Steps(img), 0)[Len(img)] <= ImageEnd(img) - SegFirst(img[1])
<1> DEFINE L == Len(img)
           z == Offsets(Steps(img), 0)
           F(i) == SegFirst(img[i])
           P(i) == SegPages(img[i])
           Ns == {n \in Nat : n < L => z[n] <= F(n + 1) - F(1)}
<1>1. /\ L \in Nat /\ L >= 1
      /\ \A i \in 1..L : F(i) \in Nat /\ P(i) \in Nat /\ SegStep(img[i]) <= P(i) /\ SegStep(img[i]) \in Nat
      /\ \A i, j \in 1..L : i < j => F(i) + P(i) <= F(j)
      /\ ImageEnd(img) = F(L) + P(L)
    BY ImageFacts
<1>2. /\ z \in [0..L -> Int] /\ z[0] = 0
      /\ \A i \in 1..L : z[i] = z[i - 1] + SegStep(img[i])
    BY StepsFacts, OffsetsFacts
<1> HIDE DEF L, z, F, P
<1>3. 0 \in Ns
    <2>1. 1 \in 1..L
        BY <1>1
    <2> QED BY <1>1, <1>2, <2>1
<1>4. ASSUME NEW n \in Ns PROVE n + 1 \in Ns
    <2>1. n \in Nat /\ n + 1 \in Nat /\ (n + 1) - 1 = n
        OBVIOUS
    <2>2. ASSUME n + 1 < L PROVE z[n + 1] <= F((n + 1) + 1) - F(1)
        <3>1. n < L /\ n + 1 \in 1..L /\ (n + 1) + 1 \in 1..L /\ n \in 0..L /\ 1 \in 1..L
            BY <1>1, <2>1, <2>2
        <3>2. z[n] <= F(n + 1) - F(1) /\ z[n] \in Int
            BY <1>2, <3>1
        <3>3. z[n + 1] = z[n] + SegStep(img[n + 1])
            BY <1>2, <2>1, <3>1
        <3>4. F(n + 1) + P(n + 1) <= F((n + 1) + 1)
            BY <1>1, <2>1, <3>1
        <3>5. /\ F(n + 1) \in Nat /\ P(n + 1) \in Nat /\ F((n + 1) + 1) \in Nat /\ F(1) \in Nat
              /\ SegStep(img[n + 1]) \in Nat /\ SegStep(img[n + 1]) <= P(n + 1)
            BY <1>1, <3>1
        <3> QED BY <3>2, <3>3, <3>4, <3>5
    <2> QED BY <2>1, <2>2
<1> HIDE DEF Ns
<1>5. Ns = Nat
    <2>1. Ns \in SUBSET Nat
        BY DEF Ns
    <2> QED BY <1>3, <1>4, <2>1, NatInd
<1>6. ASSUME NEW i \in 1..L PROVE z[i - 1] <= F(i) - F(1)
    <2>1. i - 1 \in Ns /\ i - 1 < L /\ (i - 1) + 1 = i
        BY <1>1, <1>5
    <2> QED BY <2>1 DEF Ns
<1>7. z[L] <= ImageEnd(img) - F(1)
    <2>1. L \in 1..L /\ 1 \in 1..L /\ L - 1 \in 0..L
        BY <1>1
    <2>2. z[L] = z[L - 1] + SegStep(img[L]) /\ z[L - 1] <= F(L) - F(1) /\ z[L - 1] \in Int
        BY <1>2, <1>6, <2>1
    <2>3. F(L) \in Nat /\ P(L) \in Nat /\ F(1) \in Nat /\ SegStep(img[L]) \in Nat /\ SegStep(img[L]) <= P(L)
        BY <1>1, <2>1
    <2> QED BY <1>1, <2>2, <2>3
<1> QED BY <1>6, <1>7 DEF L, z, F

(***************************************************************************)
(* loadelf stays in the memory it allocated.                               *)
(***************************************************************************)
LEMMA LayoutWithin ==
    ASSUME NEW img \in Images, NEW mem \in Int
    PROVE  Within(Layout(img, mem), mem, ImageSize(img))
<1> DEFINE L == Len(img)
           z == Offsets(Steps(img), 0)
           off == Offsets(Steps(img), mem)
           list == Layout(img, mem)
           first == SegFirst(img[1])
<1>1. /\ Len(list) = L + 1
      /\ \A k \in 1..(L + 1) :
          /\ list[k].pa = off[L + 1 - k]
          /\ list[k].n = IF k = 1 THEN StackPages ELSE SegPages(img[L + 2 - k])
    BY LayoutLoaded DEF Loaded
<1>2. /\ L \in Nat /\ L >= 1
      /\ \A i \in 1..L : SegFirst(img[i]) \in Nat /\ SegPages(img[i]) \in Nat
      /\ \A i \in 1..L : SegFirst(img[i]) + SegPages(img[i]) <= ImageEnd(img)
      /\ ImageEnd(img) \in Nat
      /\ ImageSize(img) = ImageEnd(img) - first + StackPages
    BY ImageFacts
<1>3. z \in [0..L -> Int] /\ z[0] = 0 /\ off \in [0..L -> Int]
    BY StepsFacts, OffsetsFacts
<1>4. \A i \in 0..L : off[i] = mem + z[i]
    BY StepsFacts, OffsetsRise
<1>5. \A i \in 0..L : z[0] <= z[i]
    <2>1. \A i, j \in 0..L : i <= j => z[i] <= z[j]
        BY StepsFacts, OffsetsRise
    <2> HIDE DEF z, L
    <2> QED BY <1>2, <2>1
<1>6. /\ \A i \in 1..L : z[i - 1] <= SegFirst(img[i]) - first
      /\ z[L] <= ImageEnd(img) - first
    BY StepsBehind
<1>7. first \in Nat /\ StackPages \in Nat
    <2>1. 1 \in 1..L
        BY <1>2
    <2> QED BY <1>2, <2>1, LayoutAssumption
<1> HIDE DEF L, z, off, list, first
<1>8. ASSUME NEW k \in 1..(L + 1)
      PROVE  mem <= list[k].pa /\ list[k].pa + list[k].n <= mem + ImageSize(img)
    <2>1. CASE k = 1
        <3>1. L + 1 - k = L /\ L \in 0..L
            BY <1>2, <2>1
        <3>2. list[k].pa = mem + z[L] /\ list[k].n = StackPages
            BY <1>1, <1>4, <2>1, <3>1
        <3>3. z[L] \in Int /\ 0 <= z[L] /\ z[L] <= ImageEnd(img) - first
            BY <1>3, <1>5, <1>6, <3>1
        <3> QED BY <1>2, <1>7, <3>2, <3>3
    <2>2. CASE k # 1
        <3>1. PICK i \in 1..L : i = L + 2 - k
            BY <1>2, <2>2
        <3>2. L + 1 - k = i - 1 /\ i - 1 \in 0..L
            BY <1>2, <3>1
        <3>3. list[k].pa = mem + z[i - 1] /\ list[k].n = SegPages(img[i])
            BY <1>1, <1>4, <2>2, <3>1, <3>2
        <3>4. z[i - 1] \in Int /\ 0 <= z[i - 1] /\ z[i - 1] <= SegFirst(img[i]) - first
            BY <1>3, <1>5, <1>6, <3>2
        <3>5. /\ SegFirst(img[i]) \in Nat /\ SegPages(img[i]) \in Nat
              /\ SegFirst(img[i]) + SegPages(img[i]) <= ImageEnd(img)
            BY <1>2
        <3> QED BY <1>2, <1>7, <3>3, <3>4, <3>5
    <2> QED BY <2>1, <2>2
<1>9. \A k \in 1..Len(list) : mem <= list[k].pa /\ list[k].pa + list[k].n <= mem + ImageSize(img)
    BY <1>1, <1>8
<1> QED BY <1>9 DEF Within, list

(***************************************************************************)
(* When no segment crosses into one more page, the steps are the pages and *)
(* every region ends where the one loaded after it begins, or before.      *)
(***************************************************************************)
LEMMA LayoutDescends ==
    ASSUME NEW img \in Images, NEW mem \in Int, ~Crossing(img)
    PROVE  Descending(Layout(img, mem))
<1> DEFINE L == Len(img)
           off == Offsets(Steps(img), mem)
           list == Layout(img, mem)
<1>1. /\ Len(list) = L + 1
      /\ \A k \in 1..(L + 1) :
          /\ list[k].pa = off[L + 1 - k]
          /\ list[k].n = IF k = 1 THEN StackPages ELSE SegPages(img[L + 2 - k])
    BY LayoutLoaded DEF Loaded
<1>2. L \in Nat /\ L >= 1 /\ DOMAIN img = 1..L
    BY ImageFacts
<1>3. \A i \in 1..L : SegPages(img[i]) = SegStep(img[i])
    BY <1>2 DEF Crossing
<1>4. \A i \in 1..L : off[i] = off[i - 1] + SegStep(img[i])
    BY StepsFacts, OffsetsFacts
<1>5. \A i, j \in 0..L : i <= j => off[i] <= off[j]
    BY StepsFacts, OffsetsRise
<1> HIDE DEF L, off, list
<1>6. ASSUME NEW k \in 1..(L + 1), NEW l \in 1..(L + 1), k < l
      PROVE  list[l].pa + list[l].n <= list[k].pa
    <2>1. PICK i \in 1..L : i = L + 2 - l
        BY <1>2, <1>6
    <2>2. PICK j \in 0..L : j = L + 1 - k
        BY <1>2
    <2>3. i <= j /\ i \in 0..L /\ L + 1 - l = i - 1 /\ l # 1
        BY <1>2, <1>6, <2>1, <2>2
    <2>4. list[l].pa = off[i - 1] /\ list[l].n = SegStep(img[i])
        BY <1>1, <1>3, <2>1, <2>3
    <2>5. list[l].pa + list[l].n = off[i]
        BY <1>4, <2>4
    <2>6. list[k].pa = off[j]
        BY <1>1, <2>2
    <2> QED BY <1>5, <2>3, <2>5, <2>6
<1>7. \A k, l \in 1..Len(list) : k < l => list[l].pa + list[l].n <= list[k].pa
    BY <1>1, <1>6
<1> QED BY <1>7 DEF Descending, list

(***************************************************************************)
(* The sizes of a list's regions, as Offsets takes them.                   *)
(***************************************************************************)
Sizes(list) == [i \in DOMAIN list |-> list[i].n]

(***************************************************************************)
(* They are natural numbers, one for each region, and their sum is the     *)
(* total sys_fork copies.                                                  *)
(***************************************************************************)
LEMMA SizesFacts ==
    ASSUME NEW list \in Seq(Region)
    PROVE  /\ Sizes(list) \in Seq(Nat) /\ Len(Sizes(list)) = Len(list)
           /\ \A i \in 1..Len(list) : Sizes(list)[i] = list[i].n /\ list[i].n \in Nat
           /\ TotalPages(list) = Offsets(Sizes(list), 0)[Len(list)]
<1> DEFINE L == Len(list)
<1>1. L \in Nat /\ DOMAIN list = 1..L
    OBVIOUS
<1>2. \A i \in 1..L : list[i] \in Region
    OBVIOUS
<1> HIDE DEF L
<1>3. \A i \in 1..L : list[i].n \in Nat
    BY <1>2 DEF Region
<1>4. Sizes(list) = [i \in 1..L |-> list[i].n]
    BY <1>1 DEF Sizes
<1>5. Sizes(list) \in Seq(Nat) /\ Len(Sizes(list)) = L
    BY <1>1, <1>3, <1>4
<1>6. TotalPages(list) = Offsets(Sizes(list), 0)[L]
    BY DEF TotalPages, Sizes, L
<1> QED BY <1>3, <1>4, <1>5, <1>6 DEF L

(***************************************************************************)
(* What loadelf records as the size covers the regions it builds, from     *)
(* which sys_fork will copy: the segments lie in order in the image, so    *)
(* their pages add up to no more than its extent.                          *)
(***************************************************************************)
LEMMA LayoutTotal ==
    ASSUME NEW img \in Images, NEW mem \in Int
    PROVE  TotalPages(Layout(img, mem)) <= ImageSize(img)
<1> DEFINE L == Len(img)
           list == Layout(img, mem)
           w == Offsets(Sizes(list), 0)
           Hi == ImageEnd(img)
           lo(n) == IF n = 0 THEN Hi ELSE SegFirst(img[L + 1 - n])
           Ns == {n \in Nat : n <= L => w[n + 1] <= StackPages + Hi - lo(n)}
<1>1. /\ list \in Seq(Region) /\ Len(list) = L + 1
      /\ \A k \in 1..(L + 1) :
            list[k].n = IF k = 1 THEN StackPages ELSE SegPages(img[L + 2 - k])
    BY LayoutLoaded DEF Loaded
<1>2. /\ L \in Nat /\ L >= 1
      /\ \A i \in 1..L : SegFirst(img[i]) \in Nat /\ SegPages(img[i]) \in Nat
      /\ \A i \in 1..L : SegFirst(img[i]) + SegPages(img[i]) <= Hi
      /\ \A i, j \in 1..L : i < j => SegFirst(img[i]) + SegPages(img[i]) <= SegFirst(img[j])
      /\ Hi \in Nat
      /\ ImageSize(img) = Hi - SegFirst(img[1]) + StackPages
    BY ImageFacts
<1> HIDE DEF list, Hi
<1>3. /\ Sizes(list) \in Seq(Nat) /\ Len(Sizes(list)) = Len(list)
      /\ \A i \in 1..Len(list) : Sizes(list)[i] = list[i].n /\ list[i].n \in Nat
      /\ TotalPages(list) = w[Len(list)]
    BY <1>1, SizesFacts
<1>4. /\ w \in [0..(L + 1) -> Int] /\ w[0] = 0
      /\ \A i \in 1..(L + 1) : w[i] = w[i - 1] + list[i].n
    <2> DEFINE N == Len(Sizes(list))
    <2>1. /\ w \in [0..N -> Int] /\ w[0] = 0
          /\ \A i \in 1..N : w[i] = w[i - 1] + Sizes(list)[i]
        BY <1>3, OffsetsFacts
    <2>2. N = L + 1
        BY <1>1, <1>3
    <2> HIDE DEF N, w, L
    <2> QED BY <1>1, <1>3, <2>1, <2>2
<1>5. StackPages \in Nat
    BY LayoutAssumption
<1> HIDE DEF L, w
<1>6. 0 \in Ns
    <2>1. 1 \in 1..(L + 1) /\ 1 - 1 = 0
        BY <1>2
    <2>2. w[1] = StackPages
        BY <1>1, <1>4, <1>5, <2>1
    <2> QED BY <1>2, <1>5, <2>2
<1>7. ASSUME NEW n \in Nat, n + 1 <= L, w[n + 1] <= StackPages + Hi - lo(n)
      PROVE  w[(n + 1) + 1] <= StackPages + Hi - lo(n + 1)
    <2>1. PICK i \in 1..L : i = L - n
        BY <1>2, <1>7
    <2>2. (n + 1) + 1 \in 1..(L + 1) /\ n + 1 \in 0..(L + 1) /\ ((n + 1) + 1) - 1 = n + 1 /\ (n + 1) + 1 # 1
        BY <1>2, <1>7
    <2>3. L + 2 - ((n + 1) + 1) = i /\ L + 1 - (n + 1) = i /\ n + 1 # 0
        BY <1>2, <2>1
    <2>4. w[(n + 1) + 1] = w[n + 1] + SegPages(img[i])
        BY <1>1, <1>4, <2>2, <2>3
    <2>5. lo(n + 1) = SegFirst(img[i])
        BY <2>3
    <2>6. SegFirst(img[i]) + SegPages(img[i]) <= lo(n) /\ lo(n) \in Nat
        <3>1. CASE n = 0
            BY <1>2, <3>1
        <3>2. CASE n # 0
            <4>1. PICK j \in 1..L : j = L + 1 - n
                BY <1>2, <1>7, <3>2
            <4>2. i < j
                BY <1>2, <2>1, <4>1
            <4> QED BY <1>2, <3>2, <4>1, <4>2
        <3> QED BY <3>1, <3>2
    <2>7. SegFirst(img[i]) \in Nat /\ SegPages(img[i]) \in Nat /\ w[n + 1] \in Int
        BY <1>2, <1>4, <2>2
    <2> HIDE DEF lo
    <2> QED BY <1>2, <1>5, <1>7, <2>4, <2>5, <2>6, <2>7
<1>8. ASSUME NEW n \in Ns PROVE n + 1 \in Ns
    <2>1. n \in Nat /\ n + 1 \in Nat
        OBVIOUS
    <2> HIDE DEF lo
    <2>2. n + 1 <= L => n <= L
        BY <1>2, <2>1
    <2> QED BY <1>7, <2>1, <2>2
<1> HIDE DEF Ns
<1>9. Ns = Nat
    <2>1. Ns \in SUBSET Nat
        BY DEF Ns
    <2> QED BY <1>6, <1>8, <2>1, NatInd
<1>10. w[L + 1] <= StackPages + Hi - lo(L)
    <2>1. L \in Ns /\ L <= L
        BY <1>2, <1>9
    <2> QED BY <2>1 DEF Ns
<1>11. lo(L) = SegFirst(img[1]) /\ SegFirst(img[1]) \in Nat
    <2>1. L + 1 - L = 1 /\ L # 0 /\ 1 \in 1..L
        BY <1>2
    <2> QED BY <1>2, <2>1
<1>12. w[L + 1] \in Int
    <2>1. L + 1 \in 0..(L + 1)
        BY <1>2
    <2> QED BY <1>4, <2>1
<1> HIDE DEF lo
<1>13. w[L + 1] <= ImageSize(img)
    BY <1>2, <1>5, <1>10, <1>11, <1>12
<1> QED BY <1>1, <1>3, <1>13 DEF list

(***************************************************************************)
(* A list of regions has some number of pages.                             *)
(***************************************************************************)
LEMMA TotalNat ==
    ASSUME NEW old \in Seq(Region)
    PROVE  TotalPages(old) \in Nat
<1>2. /\ Sizes(old) \in Seq(Nat) /\ Len(Sizes(old)) = Len(old)
      /\ TotalPages(old) = Offsets(Sizes(old), 0)[Len(old)]
    BY SizesFacts
<1> DEFINE N == Len(old)
           z == Offsets(Sizes(old), 0)
<1>3. N \in Nat
    OBVIOUS
<1>4. z \in [0..N -> Int] /\ z[0] = 0
    BY <1>2, OffsetsFacts
<1>5. \A i, j \in 0..N : i <= j => z[i] <= z[j]
    BY <1>2, OffsetsRise
<1> HIDE DEF N, z
<1>6. z[N] \in Nat
    <2>1. 0 \in 0..N /\ N \in 0..N /\ 0 <= N
        BY <1>3
    <2> QED BY <1>4, <1>5, <2>1
<1> QED BY <1>2, <1>6 DEF N, z

(***************************************************************************)
(* sys_fork's copy: as many regions, in the memory it set aside, one after *)
(* the other.                                                              *)
(***************************************************************************)
LEMMA CopyFacts ==
    ASSUME NEW list \in Seq(Region), NEW mem \in Int
    PROVE  /\ Copy(list, mem) \in Seq(Region)
           /\ Len(Copy(list, mem)) = Len(list)
           /\ Within(Copy(list, mem), mem, TotalPages(list))
           /\ Descending(Copy(list, mem))
           /\ \A k \in DOMAIN Copy(list, mem) : \E i \in DOMAIN list :
                 Copy(list, mem)[k].va = list[i].va /\ Copy(list, mem)[k].n = list[i].n
<1> DEFINE L == Len(list)
           off == Offsets(Sizes(list), mem)
           z == Offsets(Sizes(list), 0)
           moved(i) == [list[i] EXCEPT !.pa = off[i - 1]]
           fwd == [i \in 1..L |-> moved(i)]
           new == Copy(list, mem)
<1>1. L \in Nat /\ DOMAIN list = 1..L /\ \A i \in 1..L : list[i] \in Region
    OBVIOUS
<1>2. /\ \A i \in 1..L : Sizes(list)[i] = list[i].n /\ list[i].n \in Nat
      /\ TotalPages(list) = z[L]
    BY SizesFacts
<1>3. /\ off \in [0..L -> Int] /\ off[0] = mem
      /\ \A i \in 1..L : off[i] = off[i - 1] + Sizes(list)[i]
    BY SizesFacts, OffsetsFacts
<1>4. /\ \A i, j \in 0..L : i <= j => off[i] <= off[j]
      /\ \A i \in 0..L : off[i] = mem + z[i]
    BY SizesFacts, OffsetsRise
<1>5. new = Reverse(fwd)
    BY <1>1 DEF Copy, Sizes
<1> HIDE DEF L, off, z, new
<1>6. \A i \in 1..L : off[i] = off[i - 1] + list[i].n
    BY <1>2, <1>3
<1>7. ASSUME NEW i \in 1..L
      PROVE  /\ moved(i) \in Region /\ moved(i).va = list[i].va
             /\ moved(i).pa = off[i - 1] /\ moved(i).n = list[i].n
    <2>1. i - 1 \in 0..L
        BY <1>1
    <2>2. PICK o \in Int : o = off[i - 1]
        BY <1>3, <2>1
    <2>3. PICK r \in Region : r = list[i]
        BY <1>1
    <2>4. /\ [r EXCEPT !.pa = o] \in Region /\ [r EXCEPT !.pa = o].va = r.va
          /\ [r EXCEPT !.pa = o].pa = o /\ [r EXCEPT !.pa = o].n = r.n
        BY DEF Region
    <2> QED BY <2>2, <2>3, <2>4
<1> HIDE DEF moved
<1>8. fwd \in Seq(Region) /\ Len(fwd) = L /\ \A i \in 1..L : fwd[i] = moved(i)
    BY <1>1, <1>7
<1> HIDE DEF fwd
<1>9. new = [k \in 1..L |-> fwd[(L - k) + 1]]
    BY <1>5, <1>8 DEF Reverse
<1>10. \A k \in 1..L : (L - k) + 1 \in 1..L
    BY <1>1
<1>11. \A k \in 1..L : fwd[(L - k) + 1] = moved((L - k) + 1)
    BY <1>8, <1>10
<1>12. \A k \in 1..L : fwd[(L - k) + 1] \in Region
    BY <1>7, <1>10, <1>11
<1>13. new \in Seq(Region) /\ Len(new) = L /\ \A k \in 1..L : new[k] = moved((L - k) + 1)
    <2>1. new \in [1..L -> Region]
        BY <1>9, <1>12
    <2>2. \A n \in Nat : \A f \in [1..n -> Region] : f \in Seq(Region) /\ Len(f) = n
        OBVIOUS
    <2>3. new \in Seq(Region) /\ Len(new) = L
        BY <1>1, <2>1, <2>2
    <2> QED BY <1>9, <1>11, <2>3
<1>14. ASSUME NEW k \in 1..L
       PROVE  new[k].pa = off[L - k] /\ new[k].pa + new[k].n = off[(L - k) + 1]
    <2>1. PICK i \in 1..L : i = (L - k) + 1
        BY <1>10
    <2>2. i - 1 = L - k
        BY <1>1, <2>1
    <2>3. new[k] = moved(i)
        BY <1>13, <2>1
    <2> QED BY <1>6, <1>7, <2>1, <2>2, <2>3
<1>15. ASSUME NEW k \in 1..L
       PROVE  mem <= new[k].pa /\ new[k].pa + new[k].n <= mem + z[L]
    <2>1. /\ L - k \in 0..L /\ (L - k) + 1 \in 0..L /\ 0 \in 0..L /\ L \in 0..L
          /\ 0 <= L - k /\ (L - k) + 1 <= L
        BY <1>1
    <2>2. off[0] <= off[L - k] /\ off[(L - k) + 1] <= off[L] /\ off[L] = mem + z[L]
        BY <1>4, <2>1
    <2> QED BY <1>3, <1>14, <2>2
<1>16. ASSUME NEW k \in 1..L, NEW l \in 1..L, k < l
       PROVE  new[l].pa + new[l].n <= new[k].pa
    <2>1. (L - l) + 1 \in 0..L /\ L - k \in 0..L /\ (L - l) + 1 <= L - k
        BY <1>1, <1>16
    <2> QED BY <1>4, <1>14, <2>1
<1>17. Within(new, mem, z[L])
    BY <1>13, <1>15 DEF Within
<1>18. Descending(new)
    BY <1>13, <1>16 DEF Descending
<1>19. \A k \in DOMAIN new : \E i \in DOMAIN list : new[k].va = list[i].va /\ new[k].n = list[i].n
    <2>1. DOMAIN new = 1..L
        BY <1>13
    <2>2. ASSUME NEW k \in 1..L
          PROVE  \E i \in 1..L : new[k].va = list[i].va /\ new[k].n = list[i].n
        <3>1. PICK i \in 1..L : i = (L - k) + 1
            BY <1>10
        <3>2. new[k] = moved(i)
            BY <1>13, <3>1
        <3> QED BY <1>7, <3>2
    <2> QED BY <1>1, <2>1, <2>2
<1> QED BY <1>2, <1>13, <1>17, <1>18, <1>19 DEF new, L

-----------------------------------------------------------------------------
(***************************************************************************)
(* Physical memory.                                                        *)
(***************************************************************************)

(***************************************************************************)
(* A run the allocator finds is free; a single frame is a run of one.      *)
(***************************************************************************)
LEMMA AllocFacts ==
    ASSUME NEW F, NEW n, Fits(F, n)
    PROVE  AllocPages(F, n) \in F /\ Run(AllocPages(F, n), n) \subseteq F
BY DEF Fits, AllocPages

(***************************************************************************)
(* While any frame is free, alloc_pages has one page to give.              *)
(***************************************************************************)
LEMMA AllocOne ==
    ASSUME NEW F \in SUBSET Frames, F # {}
    PROVE  AllocPages(F, 1) \in F
<1>1. PICK f \in F : TRUE
    OBVIOUS
<1>2. f \in Nat
    BY LayoutAssumption
<1>3. f + 1 - 1 = f
    BY <1>2
<1>4. Run(f, 1) \subseteq F
    <2>1. \A x \in f..f : x = f
        BY <1>2
    <2> QED BY <1>3, <2>1 DEF Run
<1>5. Fits(F, 1)
    BY <1>4 DEF Fits
<1> QED BY <1>5, AllocFacts

(***************************************************************************)
(* Regions within a block of memory map frames of the block only.          *)
(***************************************************************************)
LEMMA WithinFrames ==
    ASSUME NEW list \in Seq(Region), NEW mem \in Int, NEW sz \in Nat, NEW n \in Nat,
           Within(list, mem, sz), sz <= n
    PROVE  /\ FramesOf(list) \subseteq Run(mem, n)
           /\ \A i \in DOMAIN list : Run(list[i].pa, list[i].n) \subseteq Run(mem, n)
<1>1. DOMAIN list = 1..Len(list)
    OBVIOUS
<1>2. ASSUME NEW i \in DOMAIN list PROVE Run(list[i].pa, list[i].n) \subseteq Run(mem, n)
    <2>1. list[i] \in Region
        OBVIOUS
    <2>2. PICK pa \in Int, k \in Nat : pa = list[i].pa /\ k = list[i].n
        BY <2>1 DEF Region
    <2>3. mem <= pa /\ pa + k <= mem + sz
        BY <1>1, <2>2 DEF Within
    <2>4. pa..(pa + k - 1) \subseteq mem..(mem + n - 1)
        BY <2>3
    <2> QED BY <2>2, <2>4 DEF Run
<1> QED BY <1>2 DEF FramesOf

(***************************************************************************)
(* Two regions of a descending list have no frame in common.               *)
(***************************************************************************)
LEMMA DescendingApart ==
    ASSUME NEW list \in Seq(Region), Descending(list),
           NEW i \in DOMAIN list, NEW j \in DOMAIN list, i # j
    PROVE  Run(list[i].pa, list[i].n) \cap Run(list[j].pa, list[j].n) = {}
<1>1. i \in 1..Len(list) /\ j \in 1..Len(list)
    OBVIOUS
<1>2. list[i] \in Region /\ list[j] \in Region
    OBVIOUS
<1>3. PICK a \in Int, m \in Nat : a = list[i].pa /\ m = list[i].n
    BY <1>2 DEF Region
<1>4. PICK b \in Int, n \in Nat : b = list[j].pa /\ n = list[j].n
    BY <1>2 DEF Region
<1>5. a + m <= b \/ b + n <= a
    <2>1. i < j \/ j < i
        BY <1>1
    <2>2. CASE i < j
        BY <1>1, <1>3, <1>4, <2>2 DEF Descending
    <2>3. CASE j < i
        BY <1>1, <1>3, <1>4, <2>3 DEF Descending
    <2> QED BY <2>1, <2>2, <2>3
<1>6. (a..(a + m - 1)) \cap (b..(b + n - 1)) = {}
    BY <1>5
<1> QED BY <1>3, <1>4, <1>6 DEF Run

-----------------------------------------------------------------------------
(***************************************************************************)
(* Isolation, of regions regs with the frames in fr free, the kernel       *)
(* holding those in ke and the processes in st astray.                     *)
(***************************************************************************)
Isolated(regs, fr, ke, st) ==
    \A p \in Procs \ st :
        /\ FramesOf(regs[p]) \cap Frames \cap (fr \cup ke) = {}
        /\ \A q \in Procs \ (st \cup {p}) :
              FramesOf(regs[p]) \cap Frames \cap FramesOf(regs[q]) = {}

(***************************************************************************)
(* A process that gains nothing but a block of free memory, or that goes   *)
(* astray, while the kernel takes other free frames at most.               *)
(***************************************************************************)
OldFrames(p, regs, st) == IF p \in st THEN {} ELSE FramesOf(regs[p])

Gains(p, block, r1, r2, f1, f2, k1, k2, s1, s2) ==
    /\ f1 \subseteq Frames /\ f1 \cap k1 = {}
    /\ block \subseteq f1
    /\ \A q \in Procs \ {p} : r2[q] = r1[q] /\ (q \in s2 <=> q \in s1)
    /\ p \notin s2 => FramesOf(r2[p]) \cap Frames \subseteq OldFrames(p, r1, s1) \cup block
    /\ f2 \subseteq f1 \ block /\ k2 \subseteq k1 \cup (f1 \ block)

(***************************************************************************)
(* The step of Gains preserves isolation: the block was nobody's, and what *)
(* the kernel takes is not in it.                                          *)
(***************************************************************************)
LEMMA BlockIsolates ==
    ASSUME NEW p \in Procs, NEW block, NEW r1, NEW r2, NEW f1, NEW f2, NEW k1, NEW k2,
           NEW s1, NEW s2,
           Isolated(r1, f1, k1, s1), Gains(p, block, r1, r2, f1, f2, k1, k2, s1, s2)
    PROVE  Isolated(r2, f2, k2, s2)
<1> USE DEF Gains
<1> DEFINE M(q) == OldFrames(q, r1, s1)
           N(q) == OldFrames(q, r2, s2)
<1>1. /\ \A q \in Procs : M(q) \cap Frames \cap (f1 \cup k1) = {}
      /\ \A q, s \in Procs : q # s => M(q) \cap Frames \cap M(s) = {}
    BY DEF Isolated, OldFrames
<1>2. /\ \A q \in Procs : q # p => N(q) = M(q)
      /\ N(p) \cap Frames \subseteq M(p) \cup block
    BY DEF OldFrames
<1>0. \A q \in Procs : q \notin s2 => N(q) = FramesOf(r2[q])
    BY DEF OldFrames
<1> HIDE DEF M, N
<1>3. ASSUME NEW q \in Procs PROVE N(q) \cap Frames \cap (f2 \cup k2) = {}
    <2>1. CASE q = p
        BY <1>1, <1>2, <2>1
    <2>2. CASE q # p
        BY <1>1, <1>2, <2>2
    <2> QED BY <2>1, <2>2
<1>4. ASSUME NEW q \in Procs, NEW s \in Procs, q # s PROVE N(q) \cap Frames \cap N(s) = {}
    <2>1. CASE q = p
        BY <1>1, <1>2, <1>4, <2>1
    <2>2. CASE s = p
        BY <1>1, <1>2, <1>4, <2>2
    <2>3. CASE q # p /\ s # p
        BY <1>1, <1>2, <1>4, <2>3
    <2> QED BY <2>1, <2>2, <2>3
<1> QED BY <1>0, <1>3, <1>4 DEF Isolated

(***************************************************************************)
(* Isolation is Isolated of the state.                                     *)
(***************************************************************************)
LEMMA IsolationParts ==
    Isolation <=> Isolated(regions, free, kern, stray)
BY DEF Isolation, Isolated

(***************************************************************************)
(* NoAliasing, of one process's regions.                                   *)
(***************************************************************************)
Unaliased(list) ==
    \A i, j \in DOMAIN list :
        i # j /\ list[i].pa # Device =>
            Run(list[i].pa, list[i].n) \cap Run(list[j].pa, list[j].n) = {}

(***************************************************************************)
(* The lists loadelf and sys_fork build, when descending, map every frame  *)
(* once.                                                                   *)
(***************************************************************************)
LEMMA DescendingUnaliased ==
    ASSUME NEW list \in Seq(Region), Descending(list)
    PROVE  Unaliased(list)
BY DescendingApart DEF Unaliased

(***************************************************************************)
(* NoAliasing says Unaliased of every process that is not astray and whose *)
(* image does not cross.                                                   *)
(***************************************************************************)
LEMMA NoAliasingParts ==
    NoAliasing <=> \A p \in Procs \ stray :
                       proc[p] # "none" /\ ~Crossing(image[p]) => Unaliased(regions[p])
BY DEF NoAliasing, Unaliased

-----------------------------------------------------------------------------
(***************************************************************************)
(* The steps.                                                              *)
(***************************************************************************)

(***************************************************************************)
(* What every system call that goes through does: it changes one process   *)
(* p, whose regions become list, and takes free memory, a block for p and  *)
(* perhaps some frames for the kernel.                                     *)
(***************************************************************************)
Others(p) ==
    \A q \in Procs \ {p} :
        /\ proc'[q] = proc[q] /\ image'[q] = image[q]
        /\ memsz'[q] = memsz[q] /\ mmapbase'[q] = mmapbase[q]
        /\ (q \in stray' <=> q \in stray)

Memory(p, list, block) ==
    /\ list \in Seq(Region)
    /\ regions' = [regions EXCEPT ![p] = list]
    /\ block \subseteq free
    /\ p \notin stray' =>
          /\ Placed(list)
          /\ FramesOf(list) \cap Frames \subseteq OldFrames(p, regions, stray) \cup block
    /\ free' \subseteq free \ block /\ kern' \subseteq kern \cup (free \ block)
    /\ free' \cap kern' = {}

Record(p, list) ==
    /\ proc' \in [Procs -> {"none", "live", "dead"}]
    /\ image' \in [Procs -> Images]
    /\ memsz' \in [Procs -> Nat] /\ mmapbase' \in [Procs -> Nat]
    /\ pid' \in Nat /\ pid' >= pid /\ p < pid'
    /\ stray' \subseteq Procs
    /\ Len(list) >= Len(image'[p]) + 1
    /\ Len(list) = Len(image'[p]) + 1 => mmapbase'[p] = 0 \/ TotalPages(list) <= memsz'[p]
    /\ p \notin stray' /\ ~Crossing(image'[p]) => Unaliased(list)

(***************************************************************************)
(* Such a step keeps the invariant.                                        *)
(***************************************************************************)
LEMMA Changed ==
    ASSUME VmInv, NEW p \in Procs, NEW list, NEW block,
           Others(p), Memory(p, list, block), Record(p, list)
    PROVE  VmInv'
<1>1. regions \in [Procs -> Seq(Region)]
    BY DEF VmInv, Shapes
<1>2. /\ regions' \in [Procs -> Seq(Region)]
      /\ regions'[p] = list /\ \A q \in Procs \ {p} : regions'[q] = regions[q]
    BY <1>1 DEF Memory
<1>3. Procs \subseteq Int /\ pid \in Nat
    BY LayoutAssumption DEF Procs, VmInv, Shapes
<1>4. Shapes'
    <2>1. free' \subseteq Frames /\ kern' \subseteq Frames /\ free' \cap kern' = {}
        BY DEF Memory, VmInv, Shapes
    <2>2. pid' \in Nat /\ pid' >= 2
        BY DEF Record, VmInv, Shapes
    <2> QED BY <1>2, <2>1, <2>2 DEF Shapes, Record
<1>5. (\A q \in Procs : q \notin stray => Placed(regions[q]))'
    <2>1. ASSUME NEW q \in Procs, q \notin stray' PROVE Placed(regions'[q])
        <3>1. CASE q = p
            BY <1>2, <2>1, <3>1 DEF Memory
        <3>2. CASE q # p
            BY <1>2, <2>1, <3>2 DEF VmInv, Others
        <3> QED BY <3>1, <3>2
    <2> QED BY <2>1 DEF Placed
<1>6. (\A q \in Procs : q >= pid => proc[q] = "none" /\ mmapbase[q] = 0)'
    <2>1. ASSUME NEW q \in Procs, q >= pid' PROVE proc'[q] = "none" /\ mmapbase'[q] = 0
        <3>1. q # p /\ q >= pid
            BY <1>3, <2>1 DEF Record
        <3> QED BY <3>1 DEF Others, VmInv
    <2> QED BY <2>1
<1>7. (\A q \in Procs : proc[q] # "none" => Sized(q))'
    <2>1. ASSUME NEW q \in Procs, proc'[q] # "none"
          PROVE  /\ Len(regions'[q]) >= Len(image'[q]) + 1
                 /\ Len(regions'[q]) = Len(image'[q]) + 1 =>
                        mmapbase'[q] = 0 \/ TotalPages(regions'[q]) <= memsz'[q]
        <3>1. CASE q = p
            BY <1>2, <3>1 DEF Record
        <3>2. CASE q # p
            <4>1. /\ regions'[q] = regions[q] /\ image'[q] = image[q]
                  /\ mmapbase'[q] = mmapbase[q] /\ memsz'[q] = memsz[q] /\ proc[q] # "none"
                BY <1>2, <2>1, <3>2 DEF Others
            <4>2. Sized(q)
                BY <4>1 DEF VmInv
            <4> QED BY <4>1, <4>2 DEF Sized
        <3> QED BY <3>1, <3>2
    <2>2. ASSUME NEW q \in Procs, proc'[q] # "none" PROVE Sized(q)'
        BY <2>1, <2>2 DEF Sized
    <2> QED BY <2>2
<1>8. Isolation'
    <2>1. Isolated(regions, free, kern, stray)
        BY IsolationParts DEF VmInv
    <2>2. free \subseteq Frames /\ free \cap kern = {}
        BY DEF VmInv, Shapes
    <2>3. /\ block \subseteq free
          /\ p \notin stray' =>
                FramesOf(regions'[p]) \cap Frames \subseteq OldFrames(p, regions, stray) \cup block
          /\ free' \subseteq free \ block /\ kern' \subseteq kern \cup (free \ block)
        BY <1>2 DEF Memory
    <2>4. Gains(p, block, regions, regions', free, free', kern, kern', stray, stray')
        BY <1>2, <2>2, <2>3 DEF Gains, Others
    <2>5. Isolated(regions', free', kern', stray')
        BY <2>1, <2>4, BlockIsolates
    <2> QED BY <2>5 DEF Isolated, Isolation
<1>9. NoAliasing'
    <2>1. ASSUME NEW q \in Procs, q \notin stray', proc'[q] # "none", ~Crossing(image'[q])
          PROVE  Unaliased(regions'[q])
        <3>1. CASE q = p
            BY <1>2, <2>1, <3>1 DEF Record
        <3>2. CASE q # p
            <4>1. /\ q \notin stray /\ proc[q] # "none" /\ ~Crossing(image[q])
                  /\ regions'[q] = regions[q]
                BY <1>2, <2>1, <3>2 DEF Others
            <4>2. Unaliased(regions[q])
                BY <4>1, NoAliasingParts DEF VmInv
            <4> QED BY <4>1, <4>2
        <3> QED BY <3>1, <3>2
    <2> QED BY <2>1 DEF NoAliasing, Unaliased, Crossing
<1> QED BY <1>4, <1>5, <1>6, <1>7, <1>8, <1>9 DEF VmInv

(***************************************************************************)
(* A caller is a process that has been forked; a stop changes nothing.     *)
(***************************************************************************)
LEMMA CallerFacts ==
    ASSUME VmInv, NEW p \in Procs, Caller(p)
    PROVE  /\ p < pid /\ p \in Nat /\ pid \in Nat
           /\ regions[p] \in Seq(Region)
           /\ image[p] \in Images /\ memsz[p] \in Nat /\ mmapbase[p] \in Nat
           /\ Sized(p)
           /\ p \notin stray =>
                 /\ Placed(regions[p])
                 /\ ~Crossing(image[p]) => Unaliased(regions[p])
                 /\ FramesOf(regions[p]) \cap Frames \cap free = {}
<1>1. Shapes /\ proc[p] # "none"
    BY DEF VmInv, Caller
<1>2. p < pid /\ p \in Nat /\ pid \in Nat
    <2>1. p \in Nat /\ pid \in Nat
        BY <1>1, LayoutAssumption DEF Procs, Shapes
    <2> QED BY <1>1, <2>1 DEF VmInv
<1>3. regions[p] \in Seq(Region) /\ image[p] \in Images /\ memsz[p] \in Nat /\ mmapbase[p] \in Nat
    BY <1>1 DEF Shapes
<1>4. Sized(p) /\ (p \notin stray => Placed(regions[p]))
    BY <1>1 DEF VmInv
<1>5. p \notin stray /\ ~Crossing(image[p]) => Unaliased(regions[p])
    BY <1>1, NoAliasingParts DEF VmInv
<1>6. p \notin stray => FramesOf(regions[p]) \cap Frames \cap free = {}
    BY IsolationParts DEF VmInv, Isolated
<1> QED BY <1>2, <1>3, <1>4, <1>5, <1>6

(***************************************************************************)
(* A machine that stops keeps its memory as it is.                         *)
(***************************************************************************)
LEMMA StopKeeps ==
    ASSUME VmInv, UNCHANGED <<proc, image, regions, memsz, mmapbase, free, kern, pid, stray>>
    PROVE  VmInv'
BY DEF VmInv, Shapes, Sized, Isolation, NoAliasing

(***************************************************************************)
(* The caller's regions stay and the kernel takes frames: a fork without   *)
(* memory for the child, and an execve that finds a dynamic executable.    *)
(***************************************************************************)
LEMMA KernelTakes ==
    ASSUME VmInv, NEW p \in Procs, Caller(p), NEW taken \in SUBSET free,
           free' = free \ taken, kern' = kern \cup taken,
           pid' \in {pid, pid + 1},
           UNCHANGED <<proc, image, regions, memsz, mmapbase, stray>>
    PROVE  VmInv'
<1>1. /\ p < pid /\ p \in Nat /\ pid \in Nat
      /\ regions[p] \in Seq(Region) /\ Sized(p)
      /\ p \notin stray => Placed(regions[p])
      /\ p \notin stray /\ ~Crossing(image[p]) => Unaliased(regions[p])
    BY CallerFacts
<1>2. Shapes
    BY DEF VmInv
<1>3. Others(p)
    BY DEF Others
<1>4. Memory(p, regions[p], {})
    <2>1. regions' = [regions EXCEPT ![p] = regions[p]]
        BY <1>2 DEF Shapes
    <2> QED BY <1>1, <1>2, <2>1 DEF Memory, Shapes, OldFrames
<1>5. Record(p, regions[p])
    <2>1. pid' \in Nat /\ pid' >= pid /\ p < pid'
        BY <1>1
    <2> QED BY <1>1, <1>2, <2>1 DEF Record, Shapes, Sized
<1>6. PICK list, none : list = regions[p] /\ none = {}
    OBVIOUS
<1>7. Memory(p, list, none) /\ Record(p, list)
    BY <1>4, <1>5, <1>6
<1> QED BY <1>3, <1>7, Changed

(***************************************************************************)
(* sys_fork: the child's regions lie in the block alloc_pages gave, which  *)
(* holds the parent's memory size, or the child is astray.                 *)
(***************************************************************************)
LEMMA ForkChildKeeps ==
    ASSUME VmInv, NEW p \in Procs, Caller(p), pid <= MaxPid,
           NEW ks \in free, NEW mem, NEW pd \in free,
           mem \in free, Run(mem, memsz[p]) \subseteq free \ {ks, pd},
           ForkChild(p, ks, mem, pd)
    PROVE  VmInv'
<1> DEFINE list == Copy(regions[p], mem)
           block == Run(mem, memsz[p])
<1>1. /\ p < pid /\ p \in Nat /\ pid \in Nat
      /\ regions[p] \in Seq(Region) /\ Sized(p)
      /\ image[p] \in Images /\ memsz[p] \in Nat
    BY CallerFacts
<1>2. Shapes
    BY DEF VmInv
<1>3. mem \in Int
    BY <1>2, LayoutAssumption DEF Shapes
<1>4. pid \in Procs
    BY <1>1, <1>2, LayoutAssumption DEF Procs, Shapes
<1>5. pid \notin stray' => TotalPages(regions[p]) <= memsz[p]
    <2>1. pid \in stray' \/ ~Spills(p)
        BY DEF ForkChild
    <2>2. TotalPages(regions[p]) \in Nat
        BY <1>1, TotalNat
    <2> QED BY <1>1, <2>1, <2>2 DEF Spills
<1>6. /\ list \in Seq(Region) /\ Len(list) = Len(regions[p])
      /\ Within(list, mem, TotalPages(regions[p])) /\ Descending(list)
    BY <1>1, <1>3, CopyFacts
<1> HIDE DEF list
<1>7. TotalPages(regions[p]) \in Nat
    BY <1>1, TotalNat
<1>8. pid \notin stray' =>
          /\ FramesOf(list) \subseteq block
          /\ \A i \in DOMAIN list : Run(list[i].pa, list[i].n) \subseteq block
    BY <1>1, <1>3, <1>5, <1>6, <1>7, WithinFrames
<1>9. block \subseteq free \ {ks, pd}
    OBVIOUS
<1> HIDE DEF block
<1>10. free' = free \ (block \cup {ks, pd}) /\ kern' = kern \cup {ks, pd}
    BY DEF ForkChild, block
<1>11. Others(pid)
    BY <1>2 DEF Others, ForkChild, Shapes
<1>12. Memory(pid, list, block)
    <2>1. pid \notin stray' => Placed(list)
        BY <1>2, <1>8, <1>9 DEF Placed, Shapes
    <2>2. regions' = [regions EXCEPT ![pid] = list]
        BY DEF ForkChild, list
    <2>3. free' \cap kern' = {}
        BY <1>2, <1>10 DEF Shapes
    <2> QED BY <1>6, <1>8, <1>9, <1>10, <2>1, <2>2, <2>3 DEF Memory
<1>13. Record(pid, list)
    <2>1. proc' \in [Procs -> {"none", "live", "dead"}]
        BY <1>2 DEF ForkChild, Shapes
    <2>2. image' \in [Procs -> Images] /\ image'[pid] = image[p]
        BY <1>1, <1>2, <1>4 DEF ForkChild, Shapes
    <2>3. memsz' \in [Procs -> Nat] /\ mmapbase' \in [Procs -> Nat] /\ mmapbase'[pid] = 0
        <3>1. mmapbase[pid] = 0
            BY <1>1, <1>4 DEF VmInv
        <3> QED BY <1>2, <3>1 DEF ForkChild, Shapes
    <2>4. pid' \in Nat /\ pid' >= pid /\ pid < pid'
        BY <1>1 DEF ForkChild
    <2>5. Len(list) >= Len(image'[pid]) + 1
        BY <1>1, <1>6, <2>2 DEF Sized
    <2>6. Unaliased(list)
        BY <1>6, DescendingUnaliased
    <2>7. stray' \subseteq Procs
        BY <1>2, <1>4 DEF ForkChild, Shapes
    <2> QED BY <2>1, <2>2, <2>3, <2>4, <2>5, <2>6, <2>7 DEF Record
<1>14. PICK q \in Procs : q = pid
    BY <1>4
<1>15. PICK l, b : l = list /\ b = block
    OBVIOUS
<1>16. Others(q) /\ Memory(q, l, b) /\ Record(q, l)
    BY <1>11, <1>12, <1>13, <1>14, <1>15
<1> QED BY <1>16, Changed

(***************************************************************************)
(* sys_fork, by the way it ends: a stop, no memory for the child, or the   *)
(* child.                                                                  *)
(***************************************************************************)
LEMMA SysForkKeeps ==
    ASSUME VmInv, NEW p \in Procs, SysFork(p)
    PROVE  VmInv'
<1>1. Caller(p) /\ pid <= MaxPid
    BY DEF SysFork
<1>2. Shapes
    BY DEF VmInv
<1>3. ASSUME NEW how, Stop(how) PROVE VmInv'
    BY <1>3, StopKeeps DEF Stop
<1> DEFINE ks == AllocPages(free, 1)
           F1 == free \ {ks}
           mem == AllocPages(F1, memsz[p])
           F2 == F1 \ Run(mem, memsz[p])
           pd == AllocPages(F2, 1)
<1>4. CASE free = {} /\ Stop("assert")
    BY <1>3, <1>4
<1>5. CASE free # {} /\ ForkNoMemory(p, ks)
    <2>1. ks \in free
        BY <1>2, <1>5, AllocOne DEF Shapes
    <2> HIDE DEF ks
    <2>2. PICK taken \in SUBSET free : taken = {ks}
        BY <2>1
    <2>3. /\ free' = free \ taken /\ kern' = kern \cup taken /\ pid' \in {pid, pid + 1}
          /\ UNCHANGED <<proc, image, regions, memsz, mmapbase, stray>>
        BY <1>5, <2>2 DEF ForkNoMemory
    <2> QED BY <1>1, <2>3, KernelTakes
<1>6. CASE Fits(F1, memsz[p]) /\ F2 = {} /\ Stop("fault")
    BY <1>3, <1>6
<1>8. CASE free # {} /\ Fits(F1, memsz[p]) /\ F2 # {} /\ ForkChild(p, ks, mem, pd)
    <2>1. ks \in free
        BY <1>2, <1>8, AllocOne DEF Shapes
    <2> HIDE DEF ks
    <2>2. mem \in F1 /\ Run(mem, memsz[p]) \subseteq F1
        BY <1>8, AllocFacts
    <2> HIDE DEF mem
    <2>3. pd \in F2
        <3>1. F2 \in SUBSET Frames
            BY <1>2 DEF Shapes
        <3> HIDE DEF F2
        <3> QED BY <1>8, <3>1, AllocOne
    <2> HIDE DEF pd
    <2>4. mem \in free /\ pd \in free /\ Run(mem, memsz[p]) \subseteq free \ {ks, pd}
        BY <2>2, <2>3
    <2>5. PICK a \in free, m \in free, d \in free : a = ks /\ m = mem /\ d = pd
        BY <2>1, <2>4
    <2>6. ForkChild(p, a, m, d) /\ Run(m, memsz[p]) \subseteq free \ {a, d}
        BY <1>8, <2>4, <2>5
    <2> QED BY <1>1, <2>6, ForkChildKeeps
<1> QED BY <1>4, <1>5, <1>6, <1>8 DEF SysFork

(***************************************************************************)
(* sys_execve: the process leaves its old regions for those of the image.  *)
(***************************************************************************)
Executes(p, img, pd, mem) ==
    /\ pd \in free /\ mem \in free \ {pd}
    /\ Run(mem, ImageSize(img)) \subseteq free \ {pd}
    /\ image' = [image EXCEPT ![p] = img]
    /\ regions' = [regions EXCEPT ![p] = Layout(img, mem)]
    /\ memsz' = [memsz EXCEPT ![p] = ImageSize(img)]
    /\ mmapbase' = [mmapbase EXCEPT ![p] = ImageEnd(img)]
    /\ free' = (free \ {pd}) \ Run(mem, ImageSize(img))
    /\ kern' = kern \cup {pd}
    /\ stray' = stray \ {p}
    /\ UNCHANGED <<proc, pid>>

(***************************************************************************)
(* The regions of the new image lie in the block of ImageSize pages, and   *)
(* its recorded size covers them.                                          *)
(***************************************************************************)
LEMMA ExecutesKeeps ==
    ASSUME VmInv, NEW p \in Procs, Caller(p), NEW img \in Images, NEW pd, NEW mem,
           Executes(p, img, pd, mem)
    PROVE  VmInv'
<1> DEFINE list == Layout(img, mem)
           sz == ImageSize(img)
           block == Run(mem, sz)
<1>1. p < pid /\ p \in Nat /\ pid \in Nat
    BY CallerFacts
<1>2. Shapes
    BY DEF VmInv
<1>3. mem \in Int
    BY <1>2, LayoutAssumption DEF Shapes, Executes
<1>4. Len(img) \in Nat /\ sz \in Nat /\ ImageEnd(img) \in Nat
    BY ImageFacts
<1>5. list \in Seq(Region) /\ Len(list) = Len(img) + 1
    BY <1>3, LayoutLoaded DEF Loaded
<1>6. Within(list, mem, sz) /\ TotalPages(list) <= sz /\ (~Crossing(img) => Descending(list))
    BY <1>3, LayoutWithin, LayoutTotal, LayoutDescends
<1>7. regions' = [regions EXCEPT ![p] = list]
    BY DEF Executes
<1>8. /\ block \subseteq free \ {pd} /\ pd \in free
      /\ free' = (free \ {pd}) \ block /\ kern' = kern \cup {pd}
    BY DEF Executes
<1>9. image' = [image EXCEPT ![p] = img] /\ memsz' = [memsz EXCEPT ![p] = sz]
    BY DEF Executes
<1> HIDE DEF list, sz
<1>10. /\ FramesOf(list) \subseteq block
       /\ \A i \in DOMAIN list : Run(list[i].pa, list[i].n) \subseteq block
    <2>1. sz <= sz
        BY <1>4
    <2> QED BY <1>3, <1>4, <1>5, <1>6, <2>1, WithinFrames
<1> HIDE DEF block
<1>11. Others(p)
    BY <1>2 DEF Others, Executes, Shapes
<1>12. Memory(p, list, block)
    <2>1. Placed(list)
        BY <1>2, <1>8, <1>10 DEF Placed, Shapes
    <2>2. free' \cap kern' = {}
        BY <1>2, <1>8 DEF Shapes
    <2> QED BY <1>5, <1>7, <1>8, <1>10, <2>1, <2>2 DEF Memory
<1>13. Record(p, list)
    <2>1. proc' \in [Procs -> {"none", "live", "dead"}] /\ mmapbase' \in [Procs -> Nat]
        BY <1>2, <1>4 DEF Executes, Shapes
    <2>2. image' \in [Procs -> Images] /\ image'[p] = img /\ memsz' \in [Procs -> Nat] /\ memsz'[p] = sz
        BY <1>2, <1>4, <1>9 DEF Shapes
    <2>3. pid' \in Nat /\ pid' >= pid /\ p < pid' /\ stray' \subseteq Procs
        BY <1>1, <1>2 DEF Executes, Shapes
    <2>4. ~Crossing(img) => Unaliased(list)
        BY <1>5, <1>6, DescendingUnaliased
    <2>5. Len(list) >= Len(img) + 1
        BY <1>4, <1>5
    <2> QED BY <1>6, <2>1, <2>2, <2>3, <2>4, <2>5 DEF Record
<1>14. PICK l, b : l = list /\ b = block
    OBVIOUS
<1>15. Memory(p, l, b) /\ Record(p, l)
    BY <1>12, <1>13, <1>14
<1> QED BY <1>11, <1>15, Changed

(***************************************************************************)
(* sys_execve, through or stopped.                                         *)
(***************************************************************************)
LEMMA SysExecveKeeps ==
    ASSUME VmInv, NEW p \in Procs, NEW img \in Images, SysExecve(p, img)
    PROVE  VmInv'
<1>1. Caller(p) /\ Shapes
    BY DEF SysExecve, VmInv
<1> DEFINE pd == AllocPages(free, 1)
           F1 == free \ {pd}
           sz == ImageSize(img)
           mem == AllocPages(F1, sz)
<1>2. CASE Stop("fault")
    BY <1>2, StopKeeps DEF Stop
<1>3. CASE /\ free # {} /\ Fits(F1, sz)
           /\ image' = [image EXCEPT ![p] = img]
           /\ regions' = [regions EXCEPT ![p] = Layout(img, mem)]
           /\ memsz' = [memsz EXCEPT ![p] = RecordedSize(img)]
           /\ mmapbase' = [mmapbase EXCEPT ![p] = ImageEnd(img)]
           /\ free' = F1 \ Run(mem, sz)
           /\ kern' = kern \cup {pd}
           /\ stray' = stray \ {p}
           /\ UNCHANGED <<proc, pid, mode>>
    <2>1. pd \in free
        BY <1>1, <1>3, AllocOne DEF Shapes
    <2>2. mem \in F1 /\ Run(mem, sz) \subseteq F1
        BY <1>3, AllocFacts
    <2>3. PICK d, m : d = pd /\ m = mem
        OBVIOUS
    <2>4. Executes(p, img, d, m)
        BY <1>3, <2>1, <2>2, <2>3 DEF Executes, RecordedSize
    <2> QED BY <1>1, <2>4, ExecutesKeeps
<1> QED BY <1>2, <1>3 DEF SysExecve

(***************************************************************************)
(* sys_execve of a dynamic executable keeps the page directory it made.    *)
(***************************************************************************)
LEMMA ExecveDynamicKeeps ==
    ASSUME VmInv, NEW p \in Procs, ExecveDynamic(p)
    PROVE  VmInv'
<1> DEFINE pd == AllocPages(free, 1)
<1>1. Caller(p) /\ Shapes /\ free # {}
    BY DEF ExecveDynamic, VmInv
<1>2. pd \in free
    BY <1>1, AllocOne DEF Shapes
<1>3. /\ free' = free \ {pd} /\ kern' = kern \cup {pd} /\ pid' = pid
      /\ UNCHANGED <<proc, image, regions, memsz, mmapbase, stray>>
    BY DEF ExecveDynamic
<1> HIDE DEF pd
<1>4. PICK taken \in SUBSET free : taken = {pd}
    BY <1>2
<1> QED BY <1>1, <1>3, <1>4, KernelTakes

(***************************************************************************)
(* A region in front of a list.                                            *)
(***************************************************************************)
LEMMA FrontFacts ==
    ASSUME NEW r \in Region, NEW list \in Seq(Region)
    PROVE  /\ <<r>> \o list \in Seq(Region)
           /\ Len(<<r>> \o list) = Len(list) + 1
           /\ FramesOf(<<r>> \o list) \subseteq Run(r.pa, r.n) \cup FramesOf(list)
           /\ \A i \in DOMAIN (<<r>> \o list) : i = 1 \/ (i - 1 \in DOMAIN list /\ i \in Int)
           /\ (<<r>> \o list)[1] = r
           /\ \A i \in DOMAIN (<<r>> \o list) : i # 1 => (<<r>> \o list)[i] = list[i - 1]
<1> DEFINE new == <<r>> \o list
           L == Len(list)
<1>1. L \in Nat /\ DOMAIN list = 1..L
    OBVIOUS
<1>2. new \in Seq(Region) /\ Len(new) = L + 1 /\ DOMAIN new = 1..(L + 1)
    OBVIOUS
<1>3. new[1] = r /\ \A i \in 1..(L + 1) : i # 1 => new[i] = list[i - 1]
    OBVIOUS
<1> HIDE DEF new, L
<1>4. \A i \in 1..(L + 1) : i # 1 => i - 1 \in 1..L
    BY <1>1
<1>5. \A i \in 1..(L + 1) : i \in Int
    OBVIOUS
<1>6. FramesOf(new) \subseteq Run(r.pa, r.n) \cup FramesOf(list)
    <2> SUFFICES ASSUME NEW i \in DOMAIN new
                 PROVE  Run(new[i].pa, new[i].n) \subseteq Run(r.pa, r.n) \cup FramesOf(list)
        BY DEF FramesOf
    <2>1. CASE i = 1
        BY <1>3, <2>1
    <2>2. CASE i # 1
        <3>1. i - 1 \in DOMAIN list /\ new[i] = list[i - 1]
            BY <1>1, <1>2, <1>3, <1>4, <2>2
        <3> QED BY <3>1 DEF FramesOf
    <2> QED BY <2>1, <2>2
<1> QED BY <1>1, <1>2, <1>3, <1>4, <1>5, <1>6 DEF new, L

(***************************************************************************)
(* A region put in front shares no frame when it meets none of the others. *)
(***************************************************************************)
LEMMA FrontUnaliased ==
    ASSUME NEW r \in Region, NEW list \in Seq(Region), Unaliased(list),
           \A i \in DOMAIN list : list[i].pa # Device =>
               Run(list[i].pa, list[i].n) \cap Run(r.pa, r.n) = {},
           r.pa # Device => \A i \in DOMAIN list : Run(list[i].pa, list[i].n) \cap Run(r.pa, r.n) = {}
    PROVE  Unaliased(<<r>> \o list)
<1>1. PICK new : new = <<r>> \o list
    OBVIOUS
<1>2. /\ \A i \in DOMAIN new : i = 1 \/ (i - 1 \in DOMAIN list /\ i \in Int)
      /\ new[1] = r
      /\ \A i \in DOMAIN new : i # 1 => new[i] = list[i - 1]
    BY <1>1, FrontFacts
<1>3. ASSUME NEW i \in DOMAIN new, NEW j \in DOMAIN new, i # j, new[i].pa # Device
      PROVE  Run(new[i].pa, new[i].n) \cap Run(new[j].pa, new[j].n) = {}
    <2>1. CASE i = 1
        <3>1. j - 1 \in DOMAIN list /\ new[j] = list[j - 1]
            BY <1>2, <1>3, <2>1
        <3> QED BY <1>2, <1>3, <2>1, <3>1
    <2>2. CASE i # 1 /\ j = 1
        <3>1. i - 1 \in DOMAIN list /\ new[i] = list[i - 1]
            BY <1>2, <2>2
        <3> QED BY <1>2, <1>3, <2>2, <3>1
    <2>3. CASE i # 1 /\ j # 1
        <3>1. /\ i - 1 \in DOMAIN list /\ new[i] = list[i - 1] /\ i \in Int
              /\ j - 1 \in DOMAIN list /\ new[j] = list[j - 1] /\ j \in Int
            BY <1>2, <2>3
        <3>2. i - 1 # j - 1
            BY <1>3, <3>1
        <3> QED BY <1>3, <3>1, <3>2 DEF Unaliased
    <2> QED BY <2>1, <2>2, <2>3
<1>4. Unaliased(new)
    BY <1>3 DEF Unaliased
<1> QED BY <1>1, <1>4

(***************************************************************************)
(* sys_mmap: one more region, in a block of free memory or in the frame    *)
(* buffer, which no memory of a process is part of; or the caller is       *)
(* astray.                                                                 *)
(***************************************************************************)
MapFrom(p, pa, n) ==
    /\ \/ /\ Run(pa, n) \subseteq free
          /\ free' = free \ Run(pa, n)
       \/ /\ pa = Device /\ free' = free
          /\ p \in stray' \/ n <= FbPages
    /\ stray' \in {stray, stray \cup {p}}

(***************************************************************************)
(* The new region meets none of the old ones.                              *)
(***************************************************************************)
LEMMA MapKeeps ==
    ASSUME VmInv, NEW p \in Procs, Caller(p), NEW n \in MmapLens, NEW pa \in Nat,
           MapAt(p, pa, n), MapFrom(p, pa, n)
    PROVE  VmInv'
<1> DEFINE r == [va |-> mmapbase[p], pa |-> pa, n |-> n]
           old == regions[p]
           new == <<r>> \o old
           block == Run(pa, n) \cap free
<1>1. /\ p < pid /\ p \in Nat /\ pid \in Nat
      /\ old \in Seq(Region) /\ Sized(p)
      /\ image[p] \in Images /\ memsz[p] \in Nat /\ mmapbase[p] \in Nat
      /\ p \notin stray' =>
            /\ Placed(old)
            /\ ~Crossing(image[p]) => Unaliased(old)
            /\ FramesOf(old) \cap Frames \cap free = {}
    BY CallerFacts DEF MapFrom
<1>2. Shapes
    BY DEF VmInv
<1>3. n \in Nat /\ (n <= FbPages => Run(Device, n) \cap Frames = {})
    <2>1. n \in Nat /\ Device \in Nat /\ FbPages \in Nat /\ Run(Device, FbPages) \cap Frames = {}
        BY LayoutAssumption
    <2>2. n <= FbPages => Device..(Device + n - 1) \subseteq Device..(Device + FbPages - 1)
        BY <2>1
    <2> QED BY <2>1, <2>2 DEF Run
<1>4. r \in Region /\ r.pa = pa /\ r.n = n
    BY <1>1, <1>3 DEF Region
<1>5. regions' = [regions EXCEPT ![p] = new]
    BY DEF MapAt
<1>6. mmapbase' = [mmapbase EXCEPT ![p] = @ + n] /\ UNCHANGED <<proc, image, memsz, kern, pid>>
    BY DEF MapAt
<1> HIDE DEF r, old
<1>7. /\ new \in Seq(Region) /\ Len(new) = Len(old) + 1
      /\ FramesOf(new) \subseteq Run(pa, n) \cup FramesOf(old)
      /\ \A i \in DOMAIN new : i = 1 \/ (i - 1 \in DOMAIN old /\ i \in Int)
      /\ new[1] = r
      /\ \A i \in DOMAIN new : i # 1 => new[i] = old[i - 1]
    BY <1>1, <1>4, FrontFacts
<1>8. ASSUME p \notin stray', NEW i \in DOMAIN old, old[i].pa # Device
      PROVE  Run(old[i].pa, old[i].n) \subseteq Frames
    BY <1>1, <1>8 DEF Placed
<1>9. ASSUME NEW i \in DOMAIN old PROVE Run(old[i].pa, old[i].n) \subseteq FramesOf(old)
    BY DEF FramesOf
<1>10. ASSUME p \notin stray', ~Crossing(image[p]) PROVE Unaliased(new)
    <2>1. \A i \in DOMAIN old : old[i].pa # Device => Run(old[i].pa, old[i].n) \cap Run(pa, n) = {}
        <3> SUFFICES ASSUME NEW i \in DOMAIN old, old[i].pa # Device
                     PROVE  Run(old[i].pa, old[i].n) \cap Run(pa, n) = {}
            OBVIOUS
        <3>1. CASE Run(pa, n) \subseteq free
            BY <1>1, <1>8, <1>9, <1>10, <3>1
        <3>2. CASE pa = Device /\ n <= FbPages
            BY <1>3, <1>8, <1>10, <3>2
        <3> QED BY <1>10, <3>1, <3>2 DEF MapFrom
    <2>2. ASSUME pa # Device, NEW i \in DOMAIN old PROVE Run(old[i].pa, old[i].n) \cap Run(pa, n) = {}
        <3>1. Run(pa, n) \subseteq free /\ free \subseteq Frames
            BY <1>2, <2>2 DEF MapFrom, Shapes
        <3> QED BY <1>1, <1>9, <1>10, <3>1
    <2> QED BY <1>1, <1>4, <1>10, <2>1, <2>2, FrontUnaliased
<1>11. ASSUME p \notin stray' PROVE Placed(new)
    <2>1. Run(r.pa, r.n) \subseteq Frames \/ (r.pa = Device /\ r.n <= FbPages)
        BY <1>2, <1>4, <1>11 DEF MapFrom, Shapes
    <2>2. ASSUME NEW i \in DOMAIN new
          PROVE  Run(new[i].pa, new[i].n) \subseteq Frames \/ (new[i].pa = Device /\ new[i].n <= FbPages)
        <3>1. CASE i = 1
            BY <1>7, <2>1, <3>1
        <3>2. CASE i # 1
            <4>1. i - 1 \in DOMAIN old /\ new[i] = old[i - 1]
                BY <1>7, <3>2
            <4> QED BY <1>1, <1>11, <4>1 DEF Placed
        <3> QED BY <3>1, <3>2
    <2> QED BY <2>2 DEF Placed
<1> HIDE DEF new
<1>12. /\ block \subseteq free
       /\ p \notin stray' =>
             /\ free' \subseteq free \ block
             /\ FramesOf(new) \cap Frames \subseteq FramesOf(old) \cup block
    <2>1. CASE Run(pa, n) \subseteq free /\ free' = free \ Run(pa, n)
        BY <1>7, <2>1
    <2>2. CASE pa = Device /\ free' = free /\ n <= FbPages
        <3>1. block = {}
            BY <1>2, <1>3, <2>2 DEF Shapes
        <3>2. FramesOf(new) \cap Frames \subseteq FramesOf(old)
            BY <1>3, <1>7, <2>2
        <3> QED BY <2>2, <3>1, <3>2
    <2> QED BY <2>1, <2>2 DEF MapFrom
<1> HIDE DEF block
<1>13. Others(p)
    BY <1>2, <1>6 DEF Others, Shapes, MapFrom
<1>14. PICK b : /\ Memory(p, new, b)
    <2>1. kern' = kern /\ free' \subseteq free /\ free' \cap kern' = {}
        BY <1>2, <1>6 DEF Shapes, MapFrom
    <2>2. CASE p \in stray'
        <3>1. Memory(p, new, {})
            BY <1>5, <1>7, <2>1, <2>2 DEF Memory, old
        <3> QED BY <3>1
    <2>3. CASE p \notin stray'
        <3>1. OldFrames(p, regions, stray) = FramesOf(old)
            BY <2>3 DEF OldFrames, old, MapFrom
        <3>2. Memory(p, new, block)
            BY <1>5, <1>7, <1>11, <1>12, <2>1, <2>3, <3>1 DEF Memory, old
        <3> QED BY <3>2
    <2> QED BY <2>2, <2>3
<1>15. Record(p, new)
    <2>1. proc' \in [Procs -> {"none", "live", "dead"}] /\ image' \in [Procs -> Images] /\ memsz' \in [Procs -> Nat]
        BY <1>2, <1>6 DEF Shapes
    <2>2. mmapbase' \in [Procs -> Nat]
        BY <1>2, <1>3, <1>6 DEF Shapes
    <2>3. pid' \in Nat /\ pid' >= pid /\ p < pid'
        BY <1>1, <1>6
    <2>6. stray' \subseteq Procs
        BY <1>2 DEF MapFrom, Shapes
    <2>4. Len(new) >= Len(image'[p]) + 1 /\ Len(new) # Len(image'[p]) + 1
        <3>1. Len(old) \in Nat /\ Len(old) >= Len(image[p]) + 1
            BY <1>1 DEF Sized, old
        <3>2. Len(image[p]) \in Nat
            BY <1>1, ImageFacts
        <3>3. image' = image
            BY <1>6
        <3> QED BY <1>7, <3>1, <3>2, <3>3
    <2>5. p \notin stray' /\ ~Crossing(image'[p]) => Unaliased(new)
        BY <1>6, <1>10
    <2> QED BY <2>1, <2>2, <2>3, <2>4, <2>5, <2>6 DEF Record
<1>16. PICK l : l = new
    OBVIOUS
<1>17. Memory(p, l, b) /\ Record(p, l)
    BY <1>14, <1>15, <1>16
<1> QED BY <1>13, <1>17, Changed

(***************************************************************************)
(* sys_mmap, of memory, of the frame buffer or of the console.             *)
(***************************************************************************)
LEMMA MmapKeeps ==
    ASSUME VmInv, NEW p \in Procs, NEW n \in MmapLens,
           MmapAnon(p, n) \/ MmapDevice(p, n) \/ MmapConsole(p, n)
    PROVE  VmInv'
<1>1. Shapes
    BY DEF VmInv
<1>2. CASE Stop("fault")
    BY <1>2, StopKeeps DEF Stop
<1>3. CASE /\ Caller(p) /\ Fits(free, n)
           /\ MapAt(p, AllocPages(free, n), n)
           /\ free' = free \ Run(AllocPages(free, n), n)
           /\ stray' = stray
    <2>1. AllocPages(free, n) \in free /\ Run(AllocPages(free, n), n) \subseteq free
        BY <1>3, AllocFacts
    <2>2. PICK pa \in Nat : pa = AllocPages(free, n)
        BY <1>1, <2>1, LayoutAssumption DEF Shapes
    <2>3. MapAt(p, pa, n) /\ MapFrom(p, pa, n)
        BY <1>3, <2>1, <2>2 DEF MapFrom
    <2> QED BY <1>3, <2>3, MapKeeps
<1>4. CASE MmapDevice(p, n)
    <2>1. PICK pa \in Nat : pa = Device
        BY LayoutAssumption
    <2>2. stray' = (IF n > FbPages THEN stray \cup {p} ELSE stray)
        BY <1>4 DEF MmapDevice
    <2>3. n \in Nat /\ FbPages \in Nat
        BY LayoutAssumption
    <2>4. p \in stray' \/ n <= FbPages
        BY <2>2, <2>3
    <2>5. Caller(p) /\ MapAt(p, pa, n) /\ MapFrom(p, pa, n)
        BY <1>4, <2>1, <2>2, <2>4 DEF MmapDevice, MapFrom
    <2> QED BY <2>5, MapKeeps
<1> QED BY <1>2, <1>3, <1>4 DEF MmapAnon, MmapConsole

(***************************************************************************)
(* sys_exit marks the process and keeps its memory.                        *)
(***************************************************************************)
LEMMA SysExitKeeps ==
    ASSUME VmInv, NEW p \in Procs, SysExit(p)
    PROVE  VmInv'
<1>1. CASE Stop("panic")
    BY <1>1, StopKeeps DEF Stop
<1>2. CASE /\ Caller(p)
           /\ proc' = [proc EXCEPT ![p] = "dead"]
           /\ UNCHANGED <<image, regions, memsz, mmapbase, free, kern, pid, mode, stray>>
    <2>1. /\ p < pid /\ p \in Nat /\ pid \in Nat
          /\ regions[p] \in Seq(Region) /\ Sized(p)
          /\ p \notin stray => Placed(regions[p])
          /\ p \notin stray /\ ~Crossing(image[p]) => Unaliased(regions[p])
        BY <1>2, CallerFacts
    <2>2. Shapes
        BY DEF VmInv
    <2>3. Others(p)
        BY <1>2, <2>2 DEF Others, Shapes
    <2>4. Memory(p, regions[p], {})
        <3>1. regions' = [regions EXCEPT ![p] = regions[p]]
            BY <1>2, <2>2 DEF Shapes
        <3> QED BY <1>2, <2>1, <2>2, <3>1 DEF Memory, Shapes, OldFrames
    <2>5. Record(p, regions[p])
        <3>1. proc' \in [Procs -> {"none", "live", "dead"}]
            BY <1>2, <2>2 DEF Shapes
        <3>2. pid' \in Nat /\ pid' >= pid /\ p < pid'
            BY <1>2, <2>1
        <3> QED BY <1>2, <2>1, <2>2, <3>1, <3>2 DEF Record, Shapes, Sized
    <2>6. PICK l, b : l = regions[p] /\ b = {}
        OBVIOUS
    <2>7. Memory(p, l, b) /\ Record(p, l)
        BY <2>4, <2>5, <2>6
    <2> QED BY <2>3, <2>7, Changed
<1> QED BY <1>1, <1>2 DEF SysExit

-----------------------------------------------------------------------------
(***************************************************************************)
(* The theorems.                                                           *)
(***************************************************************************)

(***************************************************************************)
(* Init alone: its regions are those loadelf built in the block it was     *)
(* given.                                                                  *)
(***************************************************************************)
LEMMA InitVm ==
    ASSUME Init
    PROVE  VmInv
<1> DEFINE ks == AllocPages(Frames, 1)
           pd == AllocPages(Frames \ {ks}, 1)
           rest == Frames \ {ks, pd}
           sz == ImageSize(InitImage)
           mem == AllocPages(rest, sz)
           list == Layout(InitImage, mem)
           block == Run(mem, sz)
<1>1. InitImage \in Images
    BY ImagesAssumption
<1>2. mem \in rest /\ block \subseteq rest
    BY InitFits, AllocFacts
<1>3. ks \in Frames /\ pd \in Frames /\ pd # ks
    <2>1. Frames # {} /\ Frames \ {ks, pd} # {}
        BY <1>2
    <2>2. ks \in Frames
        BY <2>1, AllocOne
    <2> HIDE DEF ks
    <2>3. Frames \ {ks} # {} /\ Frames \ {ks} \in SUBSET Frames
        BY <2>1
    <2>4. pd \in Frames \ {ks}
        BY <2>3, AllocOne
    <2> QED BY <2>2, <2>4
<1>4. /\ proc = [p \in Procs |-> IF p = 1 THEN "live" ELSE "none"]
      /\ image = [p \in Procs |-> InitImage]
      /\ regions = [p \in Procs |-> IF p = 1 THEN list ELSE <<>>]
      /\ \E junk \in JunkSz : memsz = [p \in Procs |-> IF p = 1 THEN sz ELSE junk]
      /\ mmapbase = [p \in Procs |-> IF p = 1 THEN ImageEnd(InitImage) ELSE 0]
      /\ free = rest \ block /\ kern = {ks, pd} /\ pid = 2 /\ stray = {}
    BY DEF Init, RecordedSize
<1> HIDE DEF ks, pd
<1>5. mem \in Int
    <2> HIDE DEF mem, block
    <2>1. mem \in Frames
        BY <1>2
    <2> QED BY <2>1, LayoutAssumption
<1>6. Len(InitImage) \in Nat /\ sz \in Nat /\ ImageEnd(InitImage) \in Nat
    BY <1>1, ImageFacts
<1> HIDE DEF mem, sz
<1>7. list \in Seq(Region) /\ Len(list) = Len(InitImage) + 1
    BY <1>1, <1>5, LayoutLoaded DEF Loaded
<1>8. /\ Within(list, mem, sz) /\ TotalPages(list) <= sz
      /\ ~Crossing(InitImage) => Descending(list)
    BY <1>1, <1>5, LayoutWithin, LayoutTotal, LayoutDescends DEF sz
<1> HIDE DEF list
<1>9. /\ FramesOf(list) \subseteq block
      /\ \A i \in DOMAIN list : Run(list[i].pa, list[i].n) \subseteq block
    <2>1. sz <= sz
        BY <1>6
    <2> QED BY <1>5, <1>6, <1>7, <1>8, <2>1, WithinFrames
<1> HIDE DEF block
<1>10. 1 \in Procs /\ Procs \subseteq Nat
    BY LayoutAssumption DEF Procs
<1>11. <<>> \in Seq(Region) /\ DOMAIN <<>> = {}
    OBVIOUS
<1>12. Shapes
    <2>1. PICK junk \in Nat : memsz = [p \in Procs |-> IF p = 1 THEN sz ELSE junk]
        BY <1>4, LayoutAssumption
    <2>2. memsz \in [Procs -> Nat] /\ mmapbase \in [Procs -> Nat]
        BY <1>4, <1>6, <2>1
    <2>3. regions \in [Procs -> Seq(Region)]
        BY <1>4, <1>7, <1>11
    <2>4. proc \in [Procs -> {"none", "live", "dead"}] /\ image \in [Procs -> Images]
        BY <1>1, <1>4
    <2>5. free \subseteq Frames /\ kern \subseteq Frames /\ free \cap kern = {}
        BY <1>3, <1>4
    <2>6. pid \in Nat /\ pid >= 2 /\ stray \subseteq Procs
        BY <1>4
    <2> QED BY <2>2, <2>3, <2>4, <2>5, <2>6 DEF Shapes
<1>13. ASSUME NEW p \in Procs PROVE Placed(regions[p])
    <2>1. CASE p = 1
        BY <1>2, <1>4, <1>9, <2>1 DEF Placed
    <2>2. CASE p # 1
        BY <1>4, <1>11, <2>2 DEF Placed
    <2> QED BY <2>1, <2>2
<1>14. ASSUME NEW p \in Procs, p >= pid PROVE proc[p] = "none" /\ mmapbase[p] = 0
    <2>1. p # 1
        BY <1>4, <1>10, <1>14
    <2> QED BY <1>4, <2>1
<1>15. ASSUME NEW p \in Procs, proc[p] # "none" PROVE Sized(p)
    <2>1. p = 1
        BY <1>4, <1>15
    <2>2. regions[p] = list /\ image[p] = InitImage /\ memsz[p] = sz
        BY <1>4, <1>10, <2>1
    <2>3. Len(list) >= Len(InitImage) + 1
        BY <1>6, <1>7
    <2> QED BY <1>8, <2>2, <2>3 DEF Sized
<1>16. Isolation
    <2>1. FramesOf(<<>>) = {}
        BY <1>11 DEF FramesOf
    <2>2. \A p \in Procs : FramesOf(regions[p]) = IF p = 1 THEN FramesOf(list) ELSE {}
        BY <1>4, <2>1
    <2>3. FramesOf(list) \cap (free \cup kern) = {}
        BY <1>2, <1>4, <1>9
    <2>4. Isolated(regions, free, kern, stray)
        BY <2>2, <2>3 DEF Isolated
    <2> QED BY <2>4, IsolationParts
<1>17. NoAliasing
    <2>1. ASSUME NEW p \in Procs, proc[p] # "none", ~Crossing(image[p]) PROVE Unaliased(regions[p])
        <3>1. p = 1 /\ regions[p] = list /\ image[p] = InitImage
            BY <1>4, <2>1
        <3> QED BY <1>7, <1>8, <2>1, <3>1, DescendingUnaliased
    <2> QED BY <2>1, NoAliasingParts
<1> QED BY <1>12, <1>13, <1>14, <1>15, <1>16, <1>17 DEF VmInv

(***************************************************************************)
(* Every step keeps the invariant.                                         *)
(***************************************************************************)
LEMMA NextVm ==
    ASSUME VmInv, [Next]_vars
    PROVE  VmInv'
<1>1. ASSUME NEW p \in Procs, SysFork(p) PROVE VmInv'
    BY <1>1, SysForkKeeps
<1>2. ASSUME NEW p \in Procs, NEW img \in Images, SysExecve(p, img) PROVE VmInv'
    BY <1>2, SysExecveKeeps
<1>3. ASSUME NEW p \in Procs, ExecveDynamic(p) PROVE VmInv'
    BY <1>3, ExecveDynamicKeeps
<1>4. ASSUME NEW p \in Procs, NEW n \in MmapLens,
             MmapAnon(p, n) \/ MmapDevice(p, n) \/ MmapConsole(p, n)
      PROVE  VmInv'
    BY <1>4, MmapKeeps
<1>5. ASSUME NEW p \in Procs, SysExit(p) PROVE VmInv'
    BY <1>5, SysExitKeeps
<1>6. CASE UNCHANGED vars
    BY <1>6, StopKeeps DEF vars
<1> QED BY <1>1, <1>2, <1>3, <1>4, <1>5, <1>6 DEF Next, Stopped

(***************************************************************************)
(* The invariant always holds.                                             *)
(***************************************************************************)
LEMMA VmInvariant == Spec => []VmInv
<1>1. Init => VmInv
    BY InitVm
<1>2. VmInv /\ [Next]_vars => VmInv'
    BY NextVm
<1> QED BY <1>1, <1>2, PTL DEF Spec

(***************************************************************************)
(* In any order of forks, execs, mappings and exits, whatever the images   *)
(* and the memory, a process's memory is no other process's, not the       *)
(* kernel's and not free: loadelf, sys_fork and sys_mmap map the block     *)
(* they were given.  Only the two ways that Isolation names lead past it,  *)
(* and only for the process they lead astray.                              *)
(***************************************************************************)
THEOREM IsolationAlways == Spec => []Isolation
<1>1. VmInv => Isolation
    BY DEF VmInv
<1> QED BY <1>1, VmInvariant, PTL

(***************************************************************************)
(* An image whose segments all end on the page their size accounts for     *)
(* never has two of its regions in the same frames, in a process that      *)
(* runs it, in the children it forks or beside what it maps.               *)
(***************************************************************************)
THEOREM NoAliasingAlways == Spec => []NoAliasing
<1>1. VmInv => NoAliasing
    BY DEF VmInv
<1> QED BY <1>1, VmInvariant, PTL

(***************************************************************************)
(* The size loadelf records covers the regions it built, so sys_fork of a  *)
(* process that has mapped nothing since copies into its own block.        *)
(***************************************************************************)
THEOREM ForkFitsAlways == Spec => []ForkFits
<1>1. ASSUME VmInv PROVE ForkFits
    <2> SUFFICES ASSUME NEW p \in Procs, proc[p] = "live",
                        mmapbase[p] = ImageEnd(image[p]),
                        Len(regions[p]) = Len(image[p]) + 1
                 PROVE  ~Spills(p)
        BY DEF ForkFits
    <2>1. image[p] \in Images /\ Sized(p)
        BY <1>1 DEF VmInv, Shapes
    <2>3. TotalPages(regions[p]) \in Nat /\ memsz[p] \in Nat
        BY <1>1, TotalNat DEF VmInv, Shapes
    <2>2. mmapbase[p] # 0
        <3>1. ImageEnd(image[p]) \in Nat /\ ImageEnd(image[p]) >= 1
            BY <2>1, ImageFacts
        <3> QED BY <3>1
    <2>4. TotalPages(regions[p]) <= memsz[p]
        BY <2>1, <2>2 DEF Sized
    <2> QED BY <2>3, <2>4 DEF Spills
<1> QED BY <1>1, VmInvariant, PTL

-----------------------------------------------------------------------------
(***************************************************************************)
(* The types of Vm.                                                        *)
(***************************************************************************)
BelowKernel(list) ==
    \A i \in DOMAIN list : list[i].va >= 0 /\ list[i].va + list[i].n <= KernelPage

VmTypes ==
    /\ \A p \in Procs : BelowKernel(regions[p])
    /\ \A p \in Procs : mmapbase[p] <= MmapLimit
    /\ pid <= MaxPid + 1
    /\ mode \in {"run", "assert", "fault", "panic", "overrun"}

(***************************************************************************)
(* The regions loadelf builds are those of the segments and the stack, all *)
(* below the kernel.                                                       *)
(***************************************************************************)
LEMMA LayoutBelow ==
    ASSUME NEW img \in Images, NEW mem \in Int
    PROVE  BelowKernel(Layout(img, mem)) /\ ImageEnd(img) <= MmapLimit
<1> DEFINE L == Len(img)
           list == Layout(img, mem)
<1>1. /\ list \in Seq(Region) /\ Len(list) = L + 1
      /\ \A k \in 1..(L + 1) :
          /\ list[k].va = IF k = 1 THEN KernelPage - StackPages ELSE SegFirst(img[L + 2 - k])
          /\ list[k].n = IF k = 1 THEN StackPages ELSE SegPages(img[L + 2 - k])
    BY LayoutLoaded DEF Loaded
<1>2. /\ L \in Nat /\ L >= 1 /\ DOMAIN img = 1..L
      /\ \A i \in 1..L : SegFirst(img[i]) \in Nat /\ SegPages(img[i]) \in Nat
    BY ImageFacts
<1>3. /\ \A i \in 1..L : SegFirst(img[i]) + SegPages(img[i]) <= MmapLimit
      /\ StackPages <= KernelPage /\ StackPages \in Nat /\ KernelPage \in Nat
      /\ MmapLimit \in Nat /\ MmapLimit < KernelPage
    BY <1>2, AddressesAssumption, LayoutAssumption
<1>4. L \in 1..L /\ ImageEnd(img) = SegFirst(img[L]) + SegPages(img[L])
    <2>1. ImageEnd(img) = SegFirst(img[L]) + SegPages(img[L])
        BY ImageFacts
    <2> HIDE DEF L
    <2> QED BY <1>2, <2>1
<1>5. ImageEnd(img) <= MmapLimit
    BY <1>3, <1>4
<1> HIDE DEF L, list
<1>6. ASSUME NEW k \in 1..(L + 1)
      PROVE  list[k].va >= 0 /\ list[k].va + list[k].n <= KernelPage
    <2>1. CASE k = 1
        BY <1>1, <1>3, <2>1
    <2>2. CASE k # 1
        <3>1. PICK i \in 1..L : i = L + 2 - k
            BY <1>2, <2>2
        <3>2. PICK a \in Nat, b \in Nat : a = SegFirst(img[i]) /\ b = SegPages(img[i])
            BY <1>2
        <3>3. list[k].va = a /\ list[k].n = b
            BY <1>1, <2>2, <3>1, <3>2
        <3>4. a + b <= MmapLimit
            BY <1>3, <3>2
        <3> QED BY <1>3, <3>3, <3>4
    <2> QED BY <2>1, <2>2
<1>7. DOMAIN list = 1..(L + 1)
    BY <1>1
<1>8. BelowKernel(list)
    BY <1>6, <1>7 DEF BelowKernel
<1> QED BY <1>5, <1>8 DEF list

(***************************************************************************)
(* A list takes the place of one process's, the next pid stays or grows    *)
(* while there are pids to give.                                           *)
(***************************************************************************)
LEMMA TypesChange ==
    ASSUME VmInv, VmTypes, NEW p \in Procs, NEW list, BelowKernel(list),
           regions' = [regions EXCEPT ![p] = list],
           NEW m \in 0..MmapLimit, mmapbase' = [mmapbase EXCEPT ![p] = m],
           pid' <= MaxPid + 1, mode' \in {mode, "run", "overrun"}
    PROVE  VmTypes'
<1>1. regions \in [Procs -> Seq(Region)] /\ mmapbase \in [Procs -> Nat] /\ MmapLimit \in Nat
    BY LayoutAssumption DEF VmInv, Shapes
<1>2. \A q \in Procs : BelowKernel(regions'[q])
    BY <1>1 DEF VmTypes
<1>3. \A q \in Procs : mmapbase'[q] <= MmapLimit
    BY <1>1 DEF VmTypes
<1> QED BY <1>2, <1>3 DEF VmTypes, BelowKernel

(***************************************************************************)
(* Every call keeps the types.                                             *)
(***************************************************************************)
LEMMA NextTypes ==
    ASSUME VmInv, VmTypes, [Next]_vars
    PROVE  VmTypes'
<1>1. /\ regions \in [Procs -> Seq(Region)] /\ mmapbase \in [Procs -> Nat] /\ MmapLimit \in Nat
      /\ pid \in Nat /\ MaxPid \in Nat
      /\ \A p \in Procs : BelowKernel(regions[p]) /\ mmapbase[p] <= MmapLimit
      /\ \A p \in Procs : memsz[p] \in Nat
      /\ pid <= MaxPid + 1
    BY LayoutAssumption DEF VmInv, VmTypes, Shapes
<1>2. ASSUME NEW how \in {"assert", "fault", "panic"}, Stop(how) PROVE VmTypes'
    BY <1>2 DEF Stop, VmTypes, BelowKernel
<1>3. ASSUME UNCHANGED <<regions, mmapbase, mode>>, pid' \in {pid, pid + 1}, pid' <= MaxPid + 1
      PROVE  VmTypes'
    BY <1>3 DEF VmTypes, BelowKernel
<1>4. ASSUME NEW p \in Procs, SysFork(p) PROVE VmTypes'
    <2>1. CASE Stop("assert") \/ Stop("fault")
        BY <1>2, <2>1
    <2>2. ASSUME NEW ks, ForkNoMemory(p, ks) PROVE VmTypes'
        BY <1>1, <1>3, <1>4, <2>2 DEF ForkNoMemory, SysFork
    <2>3. ASSUME NEW ks, NEW mem \in free, NEW pd, ForkChild(p, ks, mem, pd) PROVE VmTypes'
        <3>1. mem \in Int
            BY LayoutAssumption DEF VmInv, Shapes
        <3>2. PICK list : list = Copy(regions[p], mem)
            OBVIOUS
        <3>3. \A k \in DOMAIN list : \E i \in DOMAIN regions[p] :
                  list[k].va = regions[p][i].va /\ list[k].n = regions[p][i].n
            BY <1>1, <3>1, <3>2, CopyFacts
        <3>4. BelowKernel(list)
            BY <1>1, <3>3 DEF BelowKernel
        <3>5. pid \in Procs /\ pid' = pid + 1 /\ pid + 1 <= MaxPid + 1
            BY <1>1, <1>4, <2>3 DEF SysFork, ForkChild, Procs, VmInv, Shapes
        <3>6. /\ regions' = [regions EXCEPT ![pid] = list]
              /\ mmapbase' = mmapbase /\ mode' \in {mode, "run", "overrun"}
            BY <2>3, <3>2 DEF ForkChild
        <3>7. mmapbase' = [mmapbase EXCEPT ![pid] = mmapbase[pid]] /\ mmapbase[pid] \in 0..MmapLimit
            BY <1>1, <3>5, <3>6
        <3> QED BY <3>4, <3>5, <3>6, <3>7, TypesChange
    <2>4. ASSUME NEW ks \in free, Fits(free \ {ks}, memsz[p])
          PROVE  AllocPages(free \ {ks}, memsz[p]) \in free
        BY <2>4, AllocFacts
    <2>5. free # {} => AllocPages(free, 1) \in free
        BY AllocOne DEF VmInv, Shapes
    <2> QED BY <1>4, <2>1, <2>2, <2>3, <2>4, <2>5 DEF SysFork
<1>5. ASSUME NEW p \in Procs, NEW img \in Images, SysExecve(p, img) PROVE VmTypes'
    <2>1. CASE Stop("fault")
        BY <1>2, <2>1
    <2>2. ASSUME NEW mem \in free,
                 regions' = [regions EXCEPT ![p] = Layout(img, mem)],
                 mmapbase' = [mmapbase EXCEPT ![p] = ImageEnd(img)],
                 pid' = pid, mode' = mode
          PROVE  VmTypes'
        <3>1. mem \in Int
            BY LayoutAssumption DEF VmInv, Shapes
        <3>2. BelowKernel(Layout(img, mem)) /\ ImageEnd(img) \in 0..MmapLimit
            BY <1>1, <3>1, LayoutBelow, ImageFacts
        <3>3. PICK list, m : list = Layout(img, mem) /\ m = ImageEnd(img)
            OBVIOUS
        <3>4. /\ BelowKernel(list) /\ m \in 0..MmapLimit /\ pid' <= MaxPid + 1
              /\ regions' = [regions EXCEPT ![p] = list] /\ mmapbase' = [mmapbase EXCEPT ![p] = m]
            BY <1>1, <2>2, <3>2, <3>3
        <3> QED BY <2>2, <3>4, TypesChange
    <2>3. ASSUME NEW F, F \subseteq free, NEW n, Fits(F, n) PROVE AllocPages(F, n) \in free
        BY <2>3, AllocFacts
    <2>4. CASE ~Stop("fault")
        <3>1. PICK pd, F1 : pd = AllocPages(free, 1) /\ F1 = free \ {pd}
            OBVIOUS
        <3>2. PICK sz, mem : sz = ImageSize(img) /\ mem = AllocPages(F1, sz)
            OBVIOUS
        <3>3. /\ Fits(F1, sz)
              /\ regions' = [regions EXCEPT ![p] = Layout(img, mem)]
              /\ mmapbase' = [mmapbase EXCEPT ![p] = ImageEnd(img)]
              /\ pid' = pid /\ mode' = mode
            BY <1>5, <2>4, <3>1, <3>2 DEF SysExecve
        <3>4. mem \in free
            BY <2>3, <3>1, <3>2, <3>3
        <3> QED BY <2>2, <3>3, <3>4
    <2> QED BY <2>1, <2>4
<1>6. ASSUME NEW p \in Procs, ExecveDynamic(p) PROVE VmTypes'
    <2>1. UNCHANGED <<regions, mmapbase, mode, pid>>
        BY <1>6 DEF ExecveDynamic
    <2> QED BY <1>1, <1>3, <2>1
<1>7. ASSUME NEW p \in Procs, NEW n \in MmapLens, NEW pa, MapAt(p, pa, n), ~LimitReached(p, n)
      PROVE  VmTypes'
    <2>1. PICK k \in Nat, m \in Nat : k = n /\ m = mmapbase[p]
        BY <1>1, LayoutAssumption
    <2>2. PICK list : list = <<[va |-> m, pa |-> pa, n |-> n]>> \o regions[p]
        OBVIOUS
    <2>3. m + k < MmapLimit
        BY <1>1, <1>7, <2>1 DEF LimitReached
    <2>4. PICK old \in Seq(Region) : old = regions[p]
        BY <1>1
    <2>5. PICK r : r = [va |-> m, pa |-> pa, n |-> n]
        OBVIOUS
    <2>6. /\ DOMAIN list = 1..(Len(old) + 1) /\ Len(old) \in Nat
          /\ \A i \in 1..(Len(old) + 1) : list[i] = IF i = 1 THEN r ELSE old[i - 1]
        BY <2>2, <2>4, <2>5
    <2>7. r.va = m /\ r.n = k
        BY <2>1, <2>5
    <2>8. \A i \in 1..(Len(old) + 1) : i = 1 \/ i - 1 \in DOMAIN old
        BY <2>6
    <2>9. BelowKernel(list)
        <3>1. MmapLimit \in Nat /\ KernelPage \in Nat /\ MmapLimit < KernelPage
            BY LayoutAssumption
        <3>2. r.va >= 0 /\ r.va + r.n <= KernelPage
            BY <2>1, <2>3, <2>7, <3>1
        <3>3. \A j \in DOMAIN old : old[j].va >= 0 /\ old[j].va + old[j].n <= KernelPage
            BY <1>1, <2>4 DEF BelowKernel
        <3> QED BY <2>6, <2>8, <3>2, <3>3 DEF BelowKernel
    <2>10. m + k \in 0..MmapLimit
        BY <1>1, <2>3
    <2>11. PICK b : b = m + k
        OBVIOUS
    <2>12. /\ regions' = [regions EXCEPT ![p] = list] /\ mmapbase' = [mmapbase EXCEPT ![p] = b]
           /\ pid' = pid /\ mode' = mode
        BY <1>1, <1>7, <2>1, <2>2, <2>11 DEF MapAt
    <2> QED BY <1>1, <2>9, <2>10, <2>11, <2>12, TypesChange
<1>8. ASSUME NEW p \in Procs, NEW n \in MmapLens,
             MmapAnon(p, n) \/ MmapDevice(p, n) \/ MmapConsole(p, n)
      PROVE  VmTypes'
    BY <1>2, <1>7, <1>8 DEF MmapAnon, MmapDevice, MmapConsole
<1>9. ASSUME NEW p \in Procs, SysExit(p) PROVE VmTypes'
    BY <1>1, <1>2, <1>3, <1>9 DEF SysExit
<1>10. CASE UNCHANGED vars
    BY <1>1, <1>3, <1>10 DEF vars
<1> QED BY <1>4, <1>5, <1>6, <1>8, <1>9, <1>10 DEF Next, Stopped

(***************************************************************************)
(* Every call leaves the regions below the kernel, those of a process that *)
(* is not astray in memory or in the frame buffer, and every process's     *)
(* mapping base within its bound.                                          *)
(***************************************************************************)
THEOREM VmTypeCorrect == Spec => []TypeOK
<1>1. Init => VmTypes
    <2> SUFFICES ASSUME Init PROVE VmTypes
        OBVIOUS
    <2>1. PICK mem, rest, sz :
              /\ rest \subseteq Frames /\ Fits(rest, sz) /\ mem = AllocPages(rest, sz)
              /\ regions = [p \in Procs |-> IF p = 1 THEN Layout(InitImage, mem) ELSE <<>>]
        BY InitFits DEF Init
    <2>2. mem \in Int /\ InitImage \in Images
        <3>1. mem \in Frames
            BY <2>1, AllocFacts
        <3> QED BY <3>1, LayoutAssumption, ImagesAssumption
    <2>3. BelowKernel(Layout(InitImage, mem)) /\ ImageEnd(InitImage) <= MmapLimit
        BY <2>2, LayoutBelow
    <2>4. BelowKernel(<<>>)
        BY DEF BelowKernel
    <2>5. mmapbase = [p \in Procs |-> IF p = 1 THEN ImageEnd(InitImage) ELSE 0] /\ pid = 2
          /\ mode = "run"
        BY DEF Init
    <2>6. MmapLimit \in Nat /\ MaxPid \in Nat \ {0}
        BY LayoutAssumption
    <2> QED BY <2>1, <2>3, <2>4, <2>5, <2>6 DEF VmTypes
<1>2. VmInv /\ VmTypes /\ [Next]_vars => VmTypes'
    BY NextTypes
<1>3. ASSUME VmInv, VmTypes PROVE TypeOK
    <2>1. Shapes /\ MmapLimit \in Nat /\ MaxPid \in Nat
        BY <1>3, LayoutAssumption DEF VmInv
    <2>2. mmapbase \in [Procs -> 0..MmapLimit] /\ pid \in 2..(MaxPid + 1)
        BY <1>3, <2>1 DEF Shapes, VmTypes
    <2>3. ASSUME NEW p \in Procs, NEW i \in DOMAIN regions[p]
          PROVE  /\ regions[p][i].va >= 0 /\ regions[p][i].va + regions[p][i].n <= KernelPage
                 /\ p \in stray \/ Run(regions[p][i].pa, regions[p][i].n) \subseteq Frames
                       \/ regions[p][i].pa = Device
        BY <1>3, <2>3 DEF VmInv, VmTypes, Placed, BelowKernel
    <2> QED BY <1>3, <2>1, <2>2, <2>3 DEF TypeOK, Shapes, VmTypes
<1>4. VmInv /\ VmTypes => TypeOK
    BY <1>3
<1> QED BY <1>1, <1>2, <1>4, VmInvariant, PTL DEF Spec

-----------------------------------------------------------------------------
(***************************************************************************)
(* The page directories and page tables, for any sizes of pages, tables    *)
(* and directories, any frame buffer, regions and requests.                *)
(***************************************************************************)

(***************************************************************************)
(* The addresses of the lower half, in pages: LowPages of them, Half       *)
(* entries of a directory.                                                 *)
(***************************************************************************)
Half == NDir \div 2
LowPages == NEntries * Half

(***************************************************************************)
(* The sizes of vm.h, in big pages and in pages: the lower half is half of *)
(* the entries of a directory.                                             *)
(***************************************************************************)
LEMMA Spans ==
    ASSUME T!SizesAssumption
    PROVE  /\ PgBytes \in Nat \ {0} /\ NEntries \in Nat \ {0} /\ NDir \in Nat
           /\ Half \in Nat \ {0} /\ NDir = 2 * Half
           /\ T!BigSize \in Nat \ {0} /\ T!BigSize = PgBytes * NEntries
           /\ T!Span \in Nat \ {0} /\ T!Span = T!BigSize * NDir /\ T!Span = PgBytes * (2 * LowPages)
           /\ T!KERNEL_OFFSET = T!BigSize * Half /\ T!KERNEL_OFFSET = PgBytes * LowPages
           /\ T!KERNEL_OFFSET \in Nat \ {0} /\ T!Span = 2 * T!KERNEL_OFFSET
           /\ LowPages \in Nat \ {0}
<1>1. /\ PgBytes \in Nat /\ PgBytes > 1 /\ NEntries \in Nat /\ NEntries > 1
      /\ NDir \in Nat /\ NDir > 1 /\ NDir % 2 = 0
    BY DEF T!SizesAssumption
<1>2. PICK h \in Nat, k \in Nat : h = NDir \div 2 /\ k = NDir % 2 /\ NDir = 2 * h + k
    BY <1>1, DivMod
<1>3. Half = h /\ h \in Nat \ {0} /\ NDir = 2 * h
    BY <1>1, <1>2 DEF Half
<1>4. PICK B \in Nat \ {0} : B = PgBytes * NEntries
    BY <1>1
<1>5. T!BigSize = B /\ T!Span = B * NDir
    BY <1>4 DEF T!BigSize, T!Span
<1>6. PICK K \in Nat \ {0} : K = B * h
    BY <1>3
<1>7. T!Span = 2 * K
    <2>1. B * (2 * h) = 2 * (B * h)
        OBVIOUS
    <2> QED BY <1>3, <1>5, <1>6, <2>1
<1>8. T!KERNEL_OFFSET = K
    <2>1. (2 * K) \div 2 = K
        OBVIOUS
    <2> QED BY <1>7, <2>1 DEF T!KERNEL_OFFSET
<1>9. LowPages \in Nat \ {0} /\ K = PgBytes * LowPages
    <2>1. LowPages = NEntries * h
        BY <1>3 DEF LowPages
    <2>2. NEntries * h \in Nat \ {0}
        BY <1>1, <1>3
    <2>3. (PgBytes * NEntries) * h = PgBytes * (NEntries * h)
        BY <1>1
    <2> QED BY <1>4, <1>6, <2>1, <2>2, <2>3
<1>10. 2 * K = PgBytes * (2 * LowPages)
    <2>1. PICK l \in Nat : l = LowPages
        BY <1>9
    <2>2. PgBytes * (2 * l) = 2 * (PgBytes * l)
        BY <1>1
    <2> QED BY <1>9, <2>1, <2>2
<1> QED BY <1>1, <1>3, <1>4, <1>5, <1>6, <1>7, <1>8, <1>9, <1>10

(***************************************************************************)
(* Remainders of multiples.                                                *)
(***************************************************************************)
LEMMA TimesMod ==
    ASSUME NEW d \in Nat \ {0}, NEW w \in Nat \ {0}, NEW y \in Nat
    PROVE  (d * y) % (d * w) = d * (y % w) /\ y % w \in Nat
<1>1. PICK q \in Nat, k \in Nat :
          q = y \div w /\ k = y % w /\ k < w /\ y = w * q + k
    BY DivMod
<1>2. PICK e \in Nat \ {0} : e = d * w
    OBVIOUS
<1>3. d * k < d * w /\ d * k \in Nat
    BY <1>1, TimesOrder
<1>4. d * y = e * q + d * k
    <2>1. d * (w * q + k) = d * (w * q) + d * k
        <3>1. w * q \in Int
            OBVIOUS
        <3> QED BY <3>1, TimesAdd
    <2>2. d * (w * q) = (d * w) * q
        OBVIOUS
    <2> QED BY <1>1, <1>2, <2>1, <2>2
<1>5. (e * q + d * k) % e = d * k
    BY <1>2, <1>3, DivModUnique
<1> QED BY <1>1, <1>2, <1>4, <1>5

(***************************************************************************)
(* A number that leaves no remainder is a multiple.                        *)
(***************************************************************************)
LEMMA MultipleOf ==
    ASSUME NEW d \in Nat \ {0}, NEW x \in Nat, x % d = 0
    PROVE  \E q \in Nat : x = d * q
<1>1. PICK q \in Nat, k \in Nat : k = x % d /\ x = d * q + k
    BY DivMod
<1>2. d * q \in Nat
    OBVIOUS
<1>3. k = 0
    BY <1>1
<1>4. x = d * q
    BY <1>1, <1>2, <1>3
<1> QED BY <1>4

(***************************************************************************)
(* The entry of the directory and of the table that a page has.            *)
(***************************************************************************)
LEMMA PageEntries ==
    ASSUME T!SizesAssumption, NEW q \in Nat
    PROVE  T!Pde(PgBytes * q) = q \div NEntries /\ T!Pte(PgBytes * q) = q % NEntries
<1>1. PgBytes \in Nat \ {0} /\ NEntries \in Nat \ {0} /\ T!BigSize = PgBytes * NEntries
    BY Spans
<1>2. PICK d \in Nat \ {0}, n \in Nat \ {0} : d = PgBytes /\ n = NEntries
    BY <1>1
<1>3. (d * q) \div d = q
    BY DivModUnique
<1>4. T!Pte(PgBytes * q) = q % NEntries
    BY <1>2, <1>3 DEF T!Pte
<1>5. PICK i \in Nat, k \in Nat : i = q \div n /\ k = q % n /\ k < n /\ q = n * i + k
    BY DivMod
<1>6. PICK e \in Nat \ {0} : e = d * n
    OBVIOUS
<1>7. d * q = e * i + d * k /\ d * k \in Nat /\ d * k < e
    <2>1. d * (n * i + k) = d * (n * i) + d * k
        <3>1. n * i \in Int
            OBVIOUS
        <3> QED BY <3>1, TimesAdd
    <2>2. d * (n * i) = (d * n) * i
        OBVIOUS
    <2>3. d * k < d * n /\ d * k \in Nat
        BY <1>5, TimesOrder
    <2> QED BY <1>5, <1>6, <2>1, <2>2, <2>3
<1>8. (d * q) \div e = i
    BY <1>7, DivModUnique
<1> QED BY <1>1, <1>2, <1>4, <1>5, <1>6, <1>8 DEF T!Pde

(***************************************************************************)
(* Where an address is in a directory.                                     *)
(***************************************************************************)
LEMMA EntryOf ==
    ASSUME T!SizesAssumption, NEW va \in Nat, va < T!Span
    PROVE  /\ T!Pde(va) \in T!Pdes /\ T!Pte(va) \in T!Ptes
           /\ va = T!BigSize * T!Pde(va) + (va % T!BigSize)
           /\ va % T!BigSize \in Nat /\ va % T!BigSize < T!BigSize
           /\ T!Pde(va) \in T!KernelPdes <=> va >= T!KERNEL_OFFSET
<1>1. PICK B \in Nat \ {0}, h \in Nat \ {0}, p \in Nat \ {0}, n \in Nat \ {0} :
          /\ B = T!BigSize /\ h = Half /\ p = PgBytes /\ n = NEntries
          /\ NDir = 2 * h /\ T!Span = B * (2 * h) /\ T!KERNEL_OFFSET = B * h
    BY Spans
<1>2. PICK i \in Nat, k \in Nat : i = va \div B /\ k = va % B /\ k < B /\ va = B * i + k
    BY DivMod
<1>3. B * (i + 1) = B * i + B
    OBVIOUS
<1>4. i < 2 * h
    <2>1. ASSUME 2 * h <= i PROVE FALSE
        <3>1. B * (2 * h) <= B * i
            BY <2>1, TimesOrder
        <3>2. B * i \in Nat /\ B * (2 * h) \in Nat
            OBVIOUS
        <3> QED BY <1>1, <1>2, <3>1, <3>2
    <2> QED BY <2>1
<1>5. T!Pde(va) = i /\ i \in T!Pdes
    BY <1>1, <1>2, <1>4 DEF T!Pde, T!Pdes
<1>6. T!Pte(va) \in T!Ptes
    <2>1. PICK x \in Nat : x = va \div p
        BY DivMod
    <2>2. x % n \in Nat /\ x % n < n
        BY DivMod
    <2> QED BY <1>1, <2>1, <2>2 DEF T!Pte, T!Ptes
<1>7. T!Pde(T!KERNEL_OFFSET) = h
    <2>1. B * h = B * h + 0 /\ 0 < B /\ B * h \in Nat
        OBVIOUS
    <2>2. (B * h) \div B = h
        BY <2>1, DivModUnique
    <2> QED BY <1>1, <2>2 DEF T!Pde
<1>8. i >= h <=> va >= B * h
    <2>1. B * i \in Nat /\ B * h \in Nat
        OBVIOUS
    <2>2. CASE i >= h
        <3>1. B * h <= B * i
            BY <2>2, TimesOrder
        <3> QED BY <1>2, <2>1, <2>2, <3>1
    <2>3. CASE ~(i >= h)
        <3>1. i + 1 <= h /\ i + 1 \in Int
            BY <2>3
        <3>2. B * (i + 1) <= B * h
            BY <3>1, TimesOrder
        <3> QED BY <1>2, <1>3, <2>1, <2>3, <3>2
    <2> QED BY <2>2, <2>3
<1>9. T!Pde(va) \in T!KernelPdes <=> va >= T!KERNEL_OFFSET
    BY <1>1, <1>5, <1>7, <1>8 DEF T!KernelPdes
<1> QED BY <1>1, <1>2, <1>5, <1>6, <1>9

(***************************************************************************)
(* Two pages that have the same entries are one.                           *)
(***************************************************************************)
LEMMA EntriesTell ==
    ASSUME T!SizesAssumption, NEW a \in Nat, NEW b \in Nat, a % PgBytes = 0, b % PgBytes = 0,
           T!Pde(a) = T!Pde(b), T!Pte(a) = T!Pte(b)
    PROVE  a = b
<1>1. PICK p \in Nat \ {0}, n \in Nat \ {0} : p = PgBytes /\ n = NEntries
    BY Spans
<1>2. PICK q \in Nat : a = p * q
    BY <1>1, MultipleOf
<1>3. PICK r \in Nat : b = p * r
    BY <1>1, MultipleOf
<1>4. q \div n = r \div n /\ q % n = r % n
    BY <1>1, <1>2, <1>3, PageEntries
<1>5. PICK i \in Nat, k \in Nat : i = q \div n /\ k = q % n /\ k < n /\ q = n * i + k
    BY DivMod
<1>6. PICK j \in Nat, ext \in Nat : j = r \div n /\ ext = r % n /\ ext < n /\ r = n * j + ext
    BY DivMod
<1>7. q = r
    BY <1>4, <1>5, <1>6
<1> QED BY <1>2, <1>3, <1>7

(***************************************************************************)
(* Multiples of the page, and rounding to them.                            *)
(***************************************************************************)
LEMMA PageMultiple ==
    ASSUME T!SizesAssumption, NEW q \in Nat
    PROVE  /\ PgBytes * q \in Nat /\ (PgBytes * q) % PgBytes = 0
           /\ T!rounddown(PgBytes * q, PgBytes) = PgBytes * q
           /\ T!roundup(PgBytes * q, PgBytes) = PgBytes * q
           /\ (PgBytes * q) \div PgBytes = q
           /\ (PgBytes * q) % T!Span = PgBytes * (q % (2 * LowPages))
           /\ q % (2 * LowPages) \in Nat
<1>1. PICK p \in Nat \ {0}, l \in Nat \ {0} :
          p = PgBytes /\ l = 2 * LowPages /\ T!Span = p * l
    BY Spans
<1>2. p * q \in Nat /\ (p * q) % p = 0 /\ (p * q) \div p = q
    <2>1. p * q = p * q + 0 /\ 0 < p
        OBVIOUS
    <2> QED BY <2>1, DivModUnique
<1>3. (p * q) % (p * l) = p * (q % l) /\ q % l \in Nat
    BY TimesMod
<1>4. T!rounddown(p * q, p) = p * q /\ T!roundup(p * q, p) = p * q
    BY <1>2 DEF T!rounddown, T!roundup
<1> QED BY <1>1, <1>2, <1>3, <1>4

(***************************************************************************)
(* Rounding down gives the start of the page an address lies in.           *)
(***************************************************************************)
LEMMA RoundsDown ==
    ASSUME T!SizesAssumption, NEW x \in Nat
    PROVE  \E q \in Nat : /\ T!rounddown(x, PgBytes) = PgBytes * q
                          /\ PgBytes * q <= x /\ x < PgBytes * q + PgBytes
<1>1. PICK p \in Nat \ {0} : p = PgBytes
    BY Spans
<1>2. PICK q \in Nat, k \in Nat :
          q = x \div p /\ k = x % p /\ k < p /\ x = p * q + k
    BY DivMod
<1>3. p * q \in Nat
    OBVIOUS
<1>4. T!rounddown(x, p) = p * q
    BY <1>2, <1>3 DEF T!rounddown
<1>5. p * q <= x /\ x < p * q + p
    BY <1>2, <1>3
<1> QED BY <1>1, <1>4, <1>5

(***************************************************************************)
(* Rounding up gives a multiple of the page, and in the lower half, where  *)
(* the sum does not wrap, the least one that is large enough.              *)
(***************************************************************************)
LEMMA RoundsUp ==
    ASSUME T!SizesAssumption, NEW x \in Nat
    PROVE  /\ \E q \in Nat : T!roundup(x, PgBytes) = PgBytes * q
           /\ x < T!Span => T!roundup(x, PgBytes) < T!Span
           /\ \A j \in Nat : x <= PgBytes * j /\ j <= LowPages =>
                 x <= T!roundup(x, PgBytes) /\ T!roundup(x, PgBytes) <= PgBytes * j
<1>1. PICK p \in Nat \ {0}, l \in Nat \ {0} :
          p = PgBytes /\ l = LowPages /\ T!Span = p * (2 * l)
    BY Spans
<1>2. PICK q \in Nat, k \in Nat :
          q = x \div p /\ k = x % p /\ k < p /\ x = p * q + k
    BY DivMod
<1>3. p * q \in Nat /\ p * (q + 1) = p * q + p /\ p * (2 * l) \in Nat \ {0}
    OBVIOUS
<1>4. CASE k = 0
    <2>1. x = p * q
        BY <1>2, <1>3, <1>4
    <2>2. T!roundup(x, p) = x
        BY <1>2, <1>4 DEF T!roundup
    <2> QED BY <1>1, <2>1, <2>2
<1>5. CASE k # 0
    <2>1. T!roundup(x, PgBytes) = (p * (q + 1)) % (p * (2 * l))
        BY <1>1, <1>2, <1>3, <1>5 DEF T!roundup
    <2>2. (p * (q + 1)) % (p * (2 * l)) = p * ((q + 1) % (2 * l)) /\ (q + 1) % (2 * l) \in Nat
        <3>1. PICK y \in Nat, w \in Nat \ {0} : y = q + 1 /\ w = 2 * l
            OBVIOUS
        <3>2. (p * y) % (p * w) = p * (y % w) /\ y % w \in Nat
            BY TimesMod
        <3> QED BY <3>1, <3>2
    <2>3. T!roundup(x, PgBytes) < T!Span
        <3>1. PICK y \in Nat, s \in Nat \ {0} : y = p * (q + 1) /\ s = p * (2 * l)
            BY <1>3
        <3>2. y % s < s
            OBVIOUS
        <3> QED BY <1>1, <2>1, <3>1, <3>2
    <2>4. ASSUME NEW j \in Nat, x <= p * j, j <= l
          PROVE  x <= T!roundup(x, PgBytes) /\ T!roundup(x, PgBytes) <= p * j
        <3>1. q < j
            <4>1. ASSUME j <= q PROVE FALSE
                <5>1. p * j <= p * q
                    BY <4>1, TimesOrder
                <5> QED BY <1>2, <1>3, <1>5, <2>4, <5>1
            <4> QED BY <4>1
        <3>2. p * (q + 1) <= p * j
            <4>1. q + 1 <= j /\ q + 1 \in Int
                BY <3>1
            <4> QED BY <4>1, TimesOrder
        <3>3. (q + 1) % (2 * l) = q + 1
            <4>1. PICK y \in Nat, z \in Nat \ {0} : y = q + 1 /\ z = 2 * l
                OBVIOUS
            <4>2. y < z
                BY <2>4, <3>1, <4>1
            <4>3. y % z = y
                BY <4>2
            <4> QED BY <4>1, <4>3
        <3> QED BY <1>2, <1>3, <2>1, <2>2, <3>2, <3>3
    <2> QED BY <1>1, <2>1, <2>2, <2>3, <2>4
<1> QED BY <1>4, <1>5

-----------------------------------------------------------------------------
(***************************************************************************)
(* The invariant.  A directory of a process has the kernel's entries, and  *)
(* below them entries that are empty or point to tables of their own.      *)
(***************************************************************************)
Low == {i \in T!Pdes : i \notin T!KernelPdes}
Empty == T!Zero
Users0(a) == T!Entry(a, T!UserFlags)
Leaf == {Empty} \cup {Users0(a) : a \in Nat}

Entries == Leaf \cup {T!IdentityDir(fb)[i] : i \in T!KernelPdes}

DirShape(d) ==
    /\ DOMAIN d = T!Pdes
    /\ \A i \in T!KernelPdes : d[i] = T!IdentityDir(fb)[i]
    /\ \A i \in Low : d[i] = Empty \/ \E f \in PtFrames : d[i] = Users0(f)
    /\ \A i, j \in Low : i # j /\ d[i] # Empty => d[i] # d[j]

TablesOf(d) == {f \in PtFrames : \E i \in Low : d[i] = Users0(f)}

(***************************************************************************)
(* What is mapped at a page, going through an entry of the directory and   *)
(* one of the table.                                                       *)
(***************************************************************************)
View(d, tab, va) ==
    IF d[T!Pde(va)] = Empty THEN T!Unmapped
    ELSE IF tab[d[T!Pde(va)].a][T!Pte(va)] = Empty THEN T!Unmapped
    ELSE tab[d[T!Pde(va)].a][T!Pte(va)].a

HasDir(p) == pagedir[p] # T!NoDir

Booting == {"boot", "clear", "identity", "paging"}
PtStopped == {"fault", "smashed"}

Kernel ==
    /\ tmode \in Booting \cup {"run"} \cup PtStopped /\ fb \in Fbs
    /\ DOMAIN kpagedir = T!Pdes
    /\ tmode \in {"identity", "paging"} => kpagedir = T!IdentityDir(fb)
    /\ tmode \notin Booting => \A i \in T!KernelPdes : kpagedir[i] = T!IdentityDir(fb)[i]
    /\ tmode \in Booting => \A p \in Users : ~HasDir(p)

Spaces ==
    /\ pagedir = [p \in Users |-> pagedir[p]]
    /\ tables \in [PtFrames -> [T!Ptes -> Leaf]]
    /\ tfree \in SUBSET PtFrames
    /\ \A p \in Users : HasDir(p) =>
          /\ pagedir[p] \in [T!Pdes -> Entries] /\ DirShape(pagedir[p])
          /\ TablesOf(pagedir[p]) \cap tfree = {}
    /\ \A p, q \in Users : p # q /\ HasDir(p) /\ HasDir(q) =>
          TablesOf(pagedir[p]) \cap TablesOf(pagedir[q]) = {}

Bases ==
    /\ base \in [Users -> Nat]
    /\ \A p \in Users : base[p] % PgBytes = 0 /\ base[p] <= T!KERNEL_OFFSET

Given ==
    /\ want \in [Users -> [T!UserPages -> {T!Unmapped} \cup (0..(T!Span - 1))]]
    /\ tmode = "run" => \A p \in Users : HasDir(p) => \A va \in T!UserPages :
          View(pagedir[p], tables, va) = want[p][va]

PtInv == Kernel /\ Spaces /\ Bases /\ Given /\ T!LimitHolds

(***************************************************************************)
(* The entries that are told apart.                                        *)
(***************************************************************************)
LEMMA EntryFacts ==
    /\ Empty = [a |-> 0, fl |-> {}] /\ ~T!Present(Empty) /\ "PSE" \notin Empty.fl
    /\ \A a : /\ Users0(a) = [a |-> a, fl |-> {"US", "RW", "P"}] /\ Users0(a).a = a
              /\ T!Present(Users0(a)) /\ "PSE" \notin Users0(a).fl /\ "US" \in Users0(a).fl
              /\ Users0(a) # Empty
    /\ \A a, b : Users0(a) = Users0(b) => a = b
BY DEF Empty, Users0, T!Zero, T!Entry, T!UserFlags, T!Present

(***************************************************************************)
(* The kernel's entries map big pages, and user code may not use them.     *)
(***************************************************************************)
LEMMA BigEntry ==
    ASSUME NEW i \in T!Pdes
    PROVE  LET e == T!IdentityDir(fb)[i] IN
           /\ T!Present(e) /\ "PSE" \in e.fl /\ "US" \notin e.fl
           /\ e.a = IF i \in T!KernelPdes \ T!FbPdes(fb)
                    THEN (i * T!BigSize + T!KERNEL_OFFSET) % T!Span ELSE i * T!BigSize
BY DEF T!IdentityDir, T!Entry, T!Present

(***************************************************************************)
(* A walk of the processor in the lower half ends at the page in view.     *)
(***************************************************************************)
LEMMA WalkView ==
    ASSUME T!SizesAssumption, NEW d, DirShape(d), tables \in [PtFrames -> [T!Ptes -> Leaf]],
           NEW va \in T!UserPages
    PROVE  /\ T!Walk(d, va) = [a |-> View(d, tables, va), user |-> View(d, tables, va) # T!Unmapped]
<1>1. va \in Nat /\ va < T!KERNEL_OFFSET /\ va % PgBytes = 0 /\ va < T!Span
    BY Spans DEF T!UserPages
<1>2. T!Pde(va) \in Low /\ T!Pte(va) \in T!Ptes
    BY <1>1, EntryOf, Spans DEF Low
<1>3. CASE d[T!Pde(va)] = Empty
    <2>1. T!Walk(d, va) = T!NoPage
        BY <1>3, EntryFacts DEF T!Walk
    <2> QED BY <1>3, <2>1 DEF View, T!NoPage
<1>4. CASE d[T!Pde(va)] # Empty
    <2>1. PICK f \in PtFrames : d[T!Pde(va)] = Users0(f)
        BY <1>2, <1>4 DEF DirShape
    <2>2. tables[f][T!Pte(va)] \in Leaf
        BY <1>2
    <2> DEFINE t == tables[f][T!Pte(va)]
    <2>3. T!Walk(d, va) = IF T!Present(t)
                          THEN [a |-> t.a + (va % PgBytes),
                                user |-> "US" \in Users0(f).fl /\ "US" \in t.fl]
                          ELSE T!NoPage
        BY <2>1, EntryFacts DEF T!Walk
    <2>4. View(d, tables, va) = IF t = Empty THEN T!Unmapped ELSE t.a
        BY <1>4, <2>1, EntryFacts DEF View
    <2> HIDE DEF t
    <2>5. CASE t = Empty
        BY <2>3, <2>4, <2>5, EntryFacts DEF T!NoPage
    <2>6. CASE t # Empty
        <3>1. PICK a \in Nat : t = Users0(a)
            BY <2>2, <2>6 DEF Leaf, t
        <3>2. t.a = a /\ T!Present(t) /\ "US" \in t.fl /\ "US" \in Users0(f).fl
            BY <3>1, EntryFacts
        <3>3. a # T!Unmapped /\ a + (va % PgBytes) = a
            BY <1>1 DEF T!Unmapped
        <3>4. T!Walk(d, va) = [a |-> a, user |-> TRUE]
            BY <2>3, <3>2, <3>3
        <3> QED BY <2>4, <2>6, <3>2, <3>3, <3>4
    <2> QED BY <2>5, <2>6
<1> QED BY <1>3, <1>4

-----------------------------------------------------------------------------
(***************************************************************************)
(* alloc_pt.  O is the set of tables of other processes.                   *)
(***************************************************************************)
SpaceSet ==
    [mode : {"run"} \cup PtStopped, dir : [T!Pdes -> Entries],
     tables : [PtFrames -> [T!Ptes -> Leaf]], free : SUBSET PtFrames]
IsSpace(z) == z = [mode |-> z.mode, dir |-> z.dir, tables |-> z.tables, free |-> z.free]
SpaceOK(s, O) ==
    /\ s \in SpaceSet /\ DirShape(s.dir)
    /\ TablesOf(s.dir) \cap (s.free \cup O) = {} /\ s.free \cap O = {}

(***************************************************************************)
(* alloc_pages finds one page when there is one.                           *)
(***************************************************************************)
LEMMA OnePage ==
    ASSUME T!SizesAssumption, T!RegionsAssumption, NEW U \in SUBSET PtFrames, U # {}
    PROVE  T!AllocPages(U, PgBytes) \in U
<1>1. PICK p \in Nat \ {0} : p = PgBytes
    BY Spans
<1>2. T!roundup(PgBytes, PgBytes) \div PgBytes = 1
    <2>1. p * 1 = p /\ 1 \in Nat
        OBVIOUS
    <2>2. T!roundup(PgBytes * 1, PgBytes) = PgBytes * 1 /\ (PgBytes * 1) \div PgBytes = 1
        BY PageMultiple
    <2> QED BY <1>1, <2>1, <2>2
<1>3. \A f \in U : T!Run(f, PgBytes) = {f}
    <2>1. ASSUME NEW f \in U PROVE T!Run(f, PgBytes) = {f}
        <3>1. f \in Nat
            BY DEF T!RegionsAssumption
        <3>2. T!Run(f, PgBytes) = {f + k * p : k \in 0..(1 - 1)}
            BY <1>1, <1>2 DEF T!Run
        <3>3. 0..(1 - 1) = {0} /\ f + 0 * p = f
            BY <3>1
        <3> QED BY <3>2, <3>3
    <2> QED BY <2>1
<1>4. \E f \in U : T!Run(f, PgBytes) \subseteq U
    BY <1>3
<1> QED BY <1>4 DEF T!AllocPages

(***************************************************************************)
(* One turn of the loop, field by field.                                   *)
(***************************************************************************)
TakesTable(s, z, f, va, pa) ==
    /\ f \in s.free /\ s.dir[T!Pde(va)] = Empty
    /\ z.mode = "run" /\ z.free = s.free \ {f}
    /\ z.dir = [s.dir EXCEPT ![T!Pde(va)] = Users0(f)]
    /\ z.tables = [s.tables EXCEPT ![f] = [T!EmptyTable EXCEPT ![T!Pte(va)] = Users0(pa)]]
HasTable(s, z, f, va, pa) ==
    /\ s.dir[T!Pde(va)] = Users0(f)
    /\ z.mode = "run" /\ z.free = s.free /\ z.dir = s.dir
    /\ z.tables = [s.tables EXCEPT ![f] = [s.tables[f] EXCEPT ![T!Pte(va)] = Users0(pa)]]
Stops(s, z, how) ==
    /\ z.mode = how /\ z.free = s.free /\ z.dir = s.dir /\ z.tables = s.tables

(***************************************************************************)
(* Flags that an entry has already can be set again.                       *)
(***************************************************************************)
LEMMA FlagsStay ==
    ASSUME NEW x, NEW u
    PROVE  [[a |-> x, fl |-> u] EXCEPT !.fl = @ \cup u] = [a |-> x, fl |-> u]
<1>1. PICK w : w = u \cup u
    OBVIOUS
<1>2. w = u
    BY <1>1
<1>3. [[a |-> x, fl |-> u] EXCEPT !.fl = w] = [a |-> x, fl |-> w]
    OBVIOUS
<1> QED BY <1>1, <1>2, <1>3

(***************************************************************************)
(* One turn of alloc_pt either stops (at a big page, or when there is no   *)
(* page left for a table), takes a page for a table, or writes into the    *)
(* table that is there.                                                    *)
(***************************************************************************)
LEMMA MapOneDoes ==
    ASSUME T!SizesAssumption, T!RegionsAssumption, NEW O, NEW s, SpaceOK(s, O),
           NEW va \in Nat, va < T!Span, NEW pa \in Nat
    PROVE  LET z == T!MapOne(s, va, pa) IN
           /\ s.mode # "run" => z = s
           /\ s.mode = "run" =>
                 \/ va >= T!KERNEL_OFFSET /\ Stops(s, z, "smashed")
                 \/ va < T!KERNEL_OFFSET /\ Stops(s, z, "fault")
                 \/ va < T!KERNEL_OFFSET /\ \E f \in PtFrames : TakesTable(s, z, f, va, pa)
                 \/ va < T!KERNEL_OFFSET /\ \E f \in PtFrames : HasTable(s, z, f, va, pa)
           /\ IsSpace(z)
<1> DEFINE z == T!MapOne(s, va, pa)
           e == s.dir[T!Pde(va)]
           f == T!AllocPages(s.free, PgBytes)
<1>0. /\ T!Pde(va) \in T!Pdes /\ (T!Pde(va) \in T!KernelPdes <=> va >= T!KERNEL_OFFSET)
      /\ T!Pte(va) \in T!Ptes /\ T!KERNEL_OFFSET \in Nat
    BY EntryOf, Spans
<1>1. s = [mode |-> s.mode, dir |-> s.dir, tables |-> s.tables, free |-> s.free]
      /\ s.dir \in [T!Pdes -> Entries] /\ s.tables \in [PtFrames -> [T!Ptes -> Leaf]]
      /\ s.free \in SUBSET PtFrames
    BY DEF SpaceOK, SpaceSet
<1>2. CASE s.mode # "run"
    BY <1>1, <1>2 DEF T!MapOne, IsSpace
<1>3. CASE s.mode = "run" /\ va >= T!KERNEL_OFFSET
    <2>1. "PSE" \in e.fl
        BY <1>0, <1>3, BigEntry DEF SpaceOK, DirShape
    <2>2. z = [s EXCEPT !.mode = "smashed"]
        BY <1>3, <2>1 DEF T!MapOne
    <2>3. z = [mode |-> "smashed", dir |-> s.dir, tables |-> s.tables, free |-> s.free]
        BY <1>1, <2>2
    <2> QED BY <1>3, <2>3 DEF Stops, IsSpace
<1>4. CASE s.mode = "run" /\ va < T!KERNEL_OFFSET /\ e = Empty /\ s.free = {}
    <2>1. "PSE" \notin e.fl /\ ~T!Present(e)
        BY <1>4, EntryFacts
    <2>2. z = [s EXCEPT !.mode = "fault"]
        BY <1>4, <2>1 DEF T!MapOne
    <2>3. z = [mode |-> "fault", dir |-> s.dir, tables |-> s.tables, free |-> s.free]
        BY <1>1, <2>2
    <2> QED BY <1>4, <2>3 DEF Stops, IsSpace
<1>5. CASE s.mode = "run" /\ va < T!KERNEL_OFFSET /\ e = Empty /\ s.free # {}
    <2>1. "PSE" \notin e.fl /\ ~T!Present(e)
        BY <1>5, EntryFacts
    <2>2. z = [s EXCEPT !.free = @ \ {f},
                        !.dir[T!Pde(va)] = Users0(f),
                        !.tables[f] = [T!EmptyTable EXCEPT ![T!Pte(va)] = Users0(pa)]]
        BY <1>5, <2>1 DEF T!MapOne, Users0
    <2>3. f \in s.free
        BY <1>1, <1>5, OnePage
    <2> HIDE DEF f, z
    <2>4. z = [mode |-> s.mode, dir |-> [s.dir EXCEPT ![T!Pde(va)] = Users0(f)],
               tables |-> [s.tables EXCEPT ![f] = [T!EmptyTable EXCEPT ![T!Pte(va)] = Users0(pa)]],
               free |-> s.free \ {f}]
        BY <1>1, <2>2
    <2>5. TakesTable(s, z, f, va, pa) /\ f \in PtFrames
        BY <1>1, <1>5, <2>3, <2>4 DEF TakesTable
    <2>6. IsSpace(z)
        BY <2>4 DEF IsSpace
    <2> QED BY <1>5, <2>5, <2>6 DEF z
<1>6. CASE s.mode = "run" /\ va < T!KERNEL_OFFSET /\ e # Empty
    <2>1. T!Pde(va) \in Low
        BY <1>0, <1>6 DEF Low
    <2>2. PICK t \in PtFrames : e = Users0(t)
        BY <1>6, <2>1 DEF SpaceOK, DirShape
    <2>3. "PSE" \notin e.fl /\ T!Present(e) /\ e.a = t
        BY <2>2, EntryFacts
    <2>4. z = [s EXCEPT !.dir[T!Pde(va)].fl = @ \cup T!UserFlags,
                        !.tables[e.a][T!Pte(va)] = Users0(pa)]
        BY <1>6, <2>3 DEF T!MapOne, Users0
    <2> HIDE DEF z
    <2>5. [s.dir EXCEPT ![T!Pde(va)].fl = @ \cup T!UserFlags] = s.dir
        <3>1. s.dir[T!Pde(va)] = [a |-> t, fl |-> T!UserFlags]
            BY <2>2 DEF Users0, T!Entry
        <3>2. [s.dir[T!Pde(va)] EXCEPT !.fl = @ \cup T!UserFlags] = s.dir[T!Pde(va)]
            BY <3>1, FlagsStay
        <3> QED BY <1>0, <1>1, <3>2
    <2>6. z = [mode |-> s.mode, dir |-> [s.dir EXCEPT ![T!Pde(va)].fl = @ \cup T!UserFlags],
               tables |-> [s.tables EXCEPT ![t] = [s.tables[t] EXCEPT ![T!Pte(va)] = Users0(pa)]],
               free |-> s.free]
        BY <1>1, <2>3, <2>4
    <2>7. HasTable(s, z, t, va, pa)
        BY <1>6, <2>2, <2>5, <2>6 DEF HasTable
    <2>8. IsSpace(z)
        BY <2>6 DEF IsSpace
    <2> QED BY <1>6, <2>7, <2>8 DEF z
<1>7. va >= T!KERNEL_OFFSET \/ va < T!KERNEL_OFFSET
    BY <1>0
<1> HIDE DEF z, e
<1> QED BY <1>2, <1>3, <1>4, <1>5, <1>6, <1>7 DEF z
(***************************************************************************)
(* One turn keeps the shape of the directory and the tables of others, and *)
(* changes what is in view at the page it maps and nowhere else.           *)
(***************************************************************************)
Places(s, z, O, va, pa) ==
    /\ SpaceOK(z, O) /\ z.free \subseteq s.free
    /\ \A g \in O : z.tables[g] = s.tables[g]
    /\ \A a \in T!UserPages :
          View(z.dir, z.tables, a) = IF a = va THEN pa ELSE View(s.dir, s.tables, a)
Turned(s, z, O, va, pa) ==
    /\ SpaceOK(z, O) /\ z.free \subseteq s.free
    /\ \A f \in O : z.tables[f] = s.tables[f]
    /\ z.mode = "run" =>
          /\ s.mode = "run" /\ va < T!KERNEL_OFFSET
          /\ \A a \in T!UserPages :
                View(z.dir, z.tables, a) = IF a = va THEN pa ELSE View(s.dir, s.tables, a)
    /\ z.mode = "smashed" => s.mode = "smashed" \/ va >= T!KERNEL_OFFSET

(***************************************************************************)
(* A turn that takes a page: the new table is cleared, so of the pages it  *)
(* serves only the one just mapped is in view.                             *)
(***************************************************************************)
LEMMA TakesKeeps ==
    ASSUME T!SizesAssumption, T!RegionsAssumption,
           NEW O \in SUBSET PtFrames, NEW s, SpaceOK(s, O), NEW z,
           IsSpace(z),
           NEW va \in T!UserPages, NEW pa \in Nat, NEW f \in PtFrames, TakesTable(s, z, f, va, pa)
    PROVE  Places(s, z, O, va, pa)
<1> DEFINE i == T!Pde(va)
           fresh == [T!EmptyTable EXCEPT ![T!Pte(va)] = Users0(pa)]
<1>0. va \in Nat /\ va < T!KERNEL_OFFSET /\ va % PgBytes = 0 /\ va < T!Span
    BY Spans DEF T!UserPages
<1>1. i \in Low /\ i \in T!Pdes /\ T!Pte(va) \in T!Ptes
    BY <1>0, EntryOf, Spans DEF Low
<1>2. /\ s.dir \in [T!Pdes -> Entries] /\ s.tables \in [PtFrames -> [T!Ptes -> Leaf]]
      /\ s.free \in SUBSET PtFrames /\ DirShape(s.dir)
      /\ TablesOf(s.dir) \cap (s.free \cup O) = {} /\ s.free \cap O = {}
    BY DEF SpaceOK, SpaceSet
<1>3. /\ f \in s.free /\ s.dir[i] = Empty
      /\ z.mode = "run" /\ z.free = s.free \ {f}
      /\ z.dir = [s.dir EXCEPT ![i] = Users0(f)]
      /\ z.tables = [s.tables EXCEPT ![f] = fresh]
    BY DEF TakesTable
<1>4. Users0(pa) \in Leaf /\ Users0(f) # Empty /\ Empty \in Leaf
    BY EntryFacts DEF Leaf
<1>5. fresh \in [T!Ptes -> Leaf] /\ fresh[T!Pte(va)] = Users0(pa)
      /\ \A k \in T!Ptes : k # T!Pte(va) => fresh[k] = Empty
    BY <1>1, <1>4 DEF T!EmptyTable, Empty
<1> HIDE DEF fresh, i
<1>6. z.tables \in [PtFrames -> [T!Ptes -> Leaf]] /\ z.tables[f] = fresh
      /\ \A g \in PtFrames : g # f => z.tables[g] = s.tables[g]
    BY <1>2, <1>3, <1>5
<1>7. z.dir[i] = Users0(f) /\ DOMAIN z.dir = T!Pdes
      /\ \A k \in T!Pdes : k # i => z.dir[k] = s.dir[k]
    BY <1>1, <1>2, <1>3
<1>8. f \notin TablesOf(s.dir) /\ f \notin O
    BY <1>2, <1>3
<1>9. \A k \in Low : s.dir[k] # Users0(f)
    BY <1>8 DEF TablesOf
<1>10. DirShape(z.dir)
    <2>1. \A k \in T!KernelPdes : z.dir[k] = T!IdentityDir(fb)[k]
        <3>1. \A k \in T!KernelPdes : k \in T!Pdes /\ k # i
            BY <1>1 DEF Low, T!KernelPdes
        <3> QED BY <1>2, <1>7, <3>1 DEF DirShape
    <2>2. \A k \in Low : k \in T!Pdes
        BY DEF Low
    <2>3. \A k \in Low : z.dir[k] = Empty \/ \E g \in PtFrames : z.dir[k] = Users0(g)
        <3>1. \A k \in Low : s.dir[k] = Empty \/ \E g \in PtFrames : s.dir[k] = Users0(g)
            BY <1>2 DEF DirShape
        <3> QED BY <1>7, <2>2, <3>1
    <2>4. ASSUME NEW k \in Low, NEW j \in Low, k # j, z.dir[k] # Empty PROVE z.dir[k] # z.dir[j]
        <3>1. CASE k = i
            BY <1>7, <1>9, <2>2, <2>4, <3>1
        <3>2. CASE j = i
            BY <1>7, <1>9, <2>2, <2>4, <3>2
        <3>3. CASE k # i /\ j # i
            BY <1>2, <1>7, <2>2, <2>4, <3>3 DEF DirShape
        <3> QED BY <3>1, <3>2, <3>3
    <2> QED BY <1>7, <2>1, <2>3, <2>4 DEF DirShape
<1>11. z \in SpaceSet
    <2>1. Users0(f) \in Entries
        <3>1. f \in Nat
            BY DEF T!RegionsAssumption
        <3> QED BY <3>1 DEF Entries, Leaf
    <2>2. z.dir \in [T!Pdes -> Entries]
        BY <1>1, <1>2, <1>3, <2>1
    <2>3. z.free \in SUBSET PtFrames
        BY <1>2, <1>3
    <2> QED BY <1>3, <1>6, <2>2, <2>3 DEF SpaceSet, IsSpace
<1>12. TablesOf(z.dir) \cap (z.free \cup O) = {}
    <2>1. TablesOf(z.dir) \subseteq TablesOf(s.dir) \cup {f}
        <3>1. ASSUME NEW g \in TablesOf(z.dir), g # f PROVE g \in TablesOf(s.dir)
            <4>1. PICK k \in Low : z.dir[k] = Users0(g)
                BY DEF TablesOf
            <4>2. k # i
                BY <1>7, <3>1, <4>1, EntryFacts
            <4>3. s.dir[k] = Users0(g)
                BY <1>7, <4>1, <4>2 DEF Low
            <4> QED BY <4>3 DEF TablesOf
        <3> QED BY <3>1
    <2> QED BY <1>2, <1>3, <1>8, <2>1
<1>13. SpaceOK(z, O)
    BY <1>2, <1>3, <1>10, <1>11, <1>12 DEF SpaceOK
<1>14. ASSUME NEW a \in T!UserPages
       PROVE  View(z.dir, z.tables, a) = IF a = va THEN pa ELSE View(s.dir, s.tables, a)
    <2>0. a \in Nat /\ a < T!KERNEL_OFFSET /\ a % PgBytes = 0 /\ a < T!Span
        BY Spans DEF T!UserPages
    <2>1. T!Pde(a) \in Low /\ T!Pde(a) \in T!Pdes /\ T!Pte(a) \in T!Ptes
        BY <2>0, EntryOf, Spans DEF Low
    <2>2. CASE T!Pde(a) = i
        <3>1. View(s.dir, s.tables, a) = T!Unmapped
            BY <1>3, <2>2 DEF View
        <3>2. View(z.dir, z.tables, a) = IF fresh[T!Pte(a)] = Empty THEN T!Unmapped
                                         ELSE fresh[T!Pte(a)].a
            BY <1>4, <1>6, <1>7, <2>2, EntryFacts DEF View
        <3>3. CASE a = va
            BY <1>5, <3>2, <3>3, EntryFacts
        <3>4. CASE a # va
            <4>1. T!Pte(a) # T!Pte(va)
                BY <1>0, <2>0, <2>2, <3>4, EntriesTell DEF i
            <4> QED BY <1>5, <2>1, <3>1, <3>2, <3>4, <4>1
        <3> QED BY <3>3, <3>4
    <2>3. CASE T!Pde(a) # i
        <3>1. a # va
            BY <2>3 DEF i
        <3>2. z.dir[T!Pde(a)] = s.dir[T!Pde(a)]
            BY <1>7, <2>1, <2>3
        <3>3. CASE s.dir[T!Pde(a)] = Empty
            BY <3>1, <3>2, <3>3 DEF View
        <3>4. CASE s.dir[T!Pde(a)] # Empty
            <4>1. PICK g \in PtFrames : s.dir[T!Pde(a)] = Users0(g)
                BY <1>2, <2>1, <3>4 DEF DirShape
            <4>2. g # f
                BY <1>9, <2>1, <4>1
            <4>3. z.tables[g] = s.tables[g] /\ Users0(g).a = g
                BY <1>6, <4>2, EntryFacts
            <4> QED BY <3>1, <3>2, <4>1, <4>3 DEF View
        <3> QED BY <3>3, <3>4
    <2> QED BY <2>2, <2>3
<1> QED BY <1>3, <1>6, <1>8, <1>13, <1>14 DEF Places

(***************************************************************************)
(* A turn that finds a table: only the entry of the page just mapped       *)
(* changes.                                                                *)
(***************************************************************************)
LEMMA HasKeeps ==
    ASSUME T!SizesAssumption, NEW O \in SUBSET PtFrames, NEW s, SpaceOK(s, O), NEW z,
           IsSpace(z),
           NEW va \in T!UserPages, NEW pa \in Nat, NEW f \in PtFrames, HasTable(s, z, f, va, pa)
    PROVE  Places(s, z, O, va, pa)
<1> DEFINE i == T!Pde(va)
           new == [s.tables[f] EXCEPT ![T!Pte(va)] = Users0(pa)]
<1>0. va \in Nat /\ va < T!KERNEL_OFFSET /\ va % PgBytes = 0 /\ va < T!Span
    BY Spans DEF T!UserPages
<1>1. i \in Low /\ i \in T!Pdes /\ T!Pte(va) \in T!Ptes
    BY <1>0, EntryOf, Spans DEF Low
<1>2. /\ s.dir \in [T!Pdes -> Entries] /\ s.tables \in [PtFrames -> [T!Ptes -> Leaf]]
      /\ s.free \in SUBSET PtFrames /\ DirShape(s.dir)
      /\ TablesOf(s.dir) \cap (s.free \cup O) = {} /\ s.free \cap O = {}
    BY DEF SpaceOK, SpaceSet
<1>3. /\ s.dir[i] = Users0(f) /\ z.mode = "run" /\ z.free = s.free /\ z.dir = s.dir
      /\ z.tables = [s.tables EXCEPT ![f] = new]
    BY DEF HasTable
<1>4. Users0(pa) \in Leaf /\ Users0(f) # Empty /\ Empty \in Leaf
    BY EntryFacts DEF Leaf
<1>5. new \in [T!Ptes -> Leaf] /\ new[T!Pte(va)] = Users0(pa)
      /\ \A k \in T!Ptes : k # T!Pte(va) => new[k] = s.tables[f][k]
    BY <1>1, <1>2, <1>4
<1> HIDE DEF new, i
<1>6. z.tables \in [PtFrames -> [T!Ptes -> Leaf]] /\ z.tables[f] = new
      /\ \A g \in PtFrames : g # f => z.tables[g] = s.tables[g]
    BY <1>2, <1>3, <1>5
<1>7. f \in TablesOf(s.dir) /\ f \notin O
    BY <1>1, <1>2, <1>3 DEF TablesOf
<1>8. SpaceOK(z, O)
    <2>1. z \in SpaceSet
        BY <1>2, <1>3, <1>6 DEF SpaceSet, IsSpace
    <2> QED BY <1>2, <1>3, <2>1 DEF SpaceOK
<1>9. ASSUME NEW a \in T!UserPages
      PROVE  View(z.dir, z.tables, a) = IF a = va THEN pa ELSE View(s.dir, s.tables, a)
    <2>0. a \in Nat /\ a < T!KERNEL_OFFSET /\ a % PgBytes = 0 /\ a < T!Span
        BY Spans DEF T!UserPages
    <2>1. T!Pde(a) \in Low /\ T!Pde(a) \in T!Pdes /\ T!Pte(a) \in T!Ptes
        BY <2>0, EntryOf, Spans DEF Low
    <2>2. CASE T!Pde(a) = i
        <3>1. View(s.dir, s.tables, a) = IF s.tables[f][T!Pte(a)] = Empty THEN T!Unmapped
                                         ELSE s.tables[f][T!Pte(a)].a
            BY <1>3, <1>4, <2>2, EntryFacts DEF View
        <3>2. View(z.dir, z.tables, a) = IF new[T!Pte(a)] = Empty THEN T!Unmapped
                                         ELSE new[T!Pte(a)].a
            BY <1>3, <1>4, <1>6, <2>2, EntryFacts DEF View
        <3>3. CASE a = va
            BY <1>5, <3>2, <3>3, EntryFacts
        <3>4. CASE a # va
            <4>1. T!Pte(a) # T!Pte(va)
                BY <1>0, <2>0, <2>2, <3>4, EntriesTell DEF i
            <4> QED BY <1>5, <2>1, <3>1, <3>2, <3>4, <4>1
        <3> QED BY <3>3, <3>4
    <2>3. CASE T!Pde(a) # i
        <3>1. a # va
            BY <2>3 DEF i
        <3>2. CASE s.dir[T!Pde(a)] = Empty
            BY <1>3, <3>1, <3>2 DEF View
        <3>3. CASE s.dir[T!Pde(a)] # Empty
            <4>1. PICK g \in PtFrames : s.dir[T!Pde(a)] = Users0(g)
                BY <1>2, <2>1, <3>3 DEF DirShape
            <4>2. g # f
                BY <1>1, <1>2, <1>3, <2>1, <2>3, <3>3, <4>1 DEF DirShape
            <4>3. z.tables[g] = s.tables[g] /\ Users0(g).a = g
                BY <1>6, <4>2, EntryFacts
            <4> QED BY <1>3, <3>1, <4>1, <4>3 DEF View
        <3> QED BY <3>2, <3>3
    <2> QED BY <2>2, <2>3
<1> QED BY <1>3, <1>6, <1>7, <1>8, <1>9 DEF Places

(***************************************************************************)
(* One turn keeps the shape of the directory, the tables of others and     *)
(* every other page in view, and reaches a big page only in the upper      *)
(* half.                                                                   *)
(***************************************************************************)
LEMMA MapOneKeeps ==
    ASSUME T!SizesAssumption, T!RegionsAssumption, NEW O \in SUBSET PtFrames, NEW s, SpaceOK(s, O),
           NEW va \in Nat, va < T!Span, va % PgBytes = 0, NEW pa \in Nat
    PROVE  Turned(s, T!MapOne(s, va, pa), O, va, pa)
<1>1. PICK z : z = T!MapOne(s, va, pa)
    OBVIOUS
<1>2. /\ s.mode # "run" => z = s
      /\ s.mode = "run" =>
            \/ va >= T!KERNEL_OFFSET /\ Stops(s, z, "smashed")
            \/ va < T!KERNEL_OFFSET /\ Stops(s, z, "fault")
            \/ va < T!KERNEL_OFFSET /\ \E f \in PtFrames : TakesTable(s, z, f, va, pa)
            \/ va < T!KERNEL_OFFSET /\ \E f \in PtFrames : HasTable(s, z, f, va, pa)
      /\ IsSpace(z)
    BY <1>1, MapOneDoes
<1>3. ASSUME NEW how \in PtStopped, Stops(s, z, how) PROVE SpaceOK(z, O)
    <2>1. z \in SpaceSet
        BY <1>2, <1>3 DEF Stops, SpaceOK, SpaceSet, IsSpace
    <2> QED BY <1>3, <2>1 DEF Stops, SpaceOK
<1>4. va < T!KERNEL_OFFSET => va \in T!UserPages
    BY Spans DEF T!UserPages
<1>5. CASE s.mode # "run"
    BY <1>1, <1>2, <1>5 DEF Turned
<1>6. CASE s.mode = "run" /\ va >= T!KERNEL_OFFSET /\ Stops(s, z, "smashed")
    BY <1>1, <1>3, <1>6 DEF Turned, Stops, PtStopped
<1>7. CASE s.mode = "run" /\ Stops(s, z, "fault")
    BY <1>1, <1>3, <1>7 DEF Turned, Stops, PtStopped
<1>8. ASSUME s.mode = "run", va < T!KERNEL_OFFSET, NEW f \in PtFrames,
             TakesTable(s, z, f, va, pa) \/ HasTable(s, z, f, va, pa)
      PROVE  Turned(s, z, O, va, pa)
    <2>1. Places(s, z, O, va, pa)
        <3>0. IsSpace(z)
            BY <1>2
        <3>1. va \in T!UserPages
            BY <1>4, <1>8
        <3>2. CASE TakesTable(s, z, f, va, pa)
            BY <3>0, <3>1, <3>2, TakesKeeps
        <3>3. CASE HasTable(s, z, f, va, pa)
            BY <3>0, <3>1, <3>3, HasKeeps
        <3> QED BY <1>8, <3>2, <3>3
    <2>2. z.mode = "run"
        BY <1>8 DEF TakesTable, HasTable
    <2> QED BY <1>8, <2>1, <2>2 DEF Turned, Places
<1> QED BY <1>1, <1>2, <1>5, <1>6, <1>7, <1>8
(***************************************************************************)
(* The pages the loop goes through.                                        *)
(***************************************************************************)
At(x, k) == (T!rounddown(x, PgBytes) + (k - 1) * PgBytes) % T!Span

(***************************************************************************)
(* The page that turn k of the loop goes to is a page below the end of the *)
(* address space, and page after page as long as the sum does not wrap.    *)
(***************************************************************************)
LEMMA Turns ==
    ASSUME T!SizesAssumption, NEW x \in Nat, NEW k \in Nat \ {0}
    PROVE  /\ At(x, k) \in Nat /\ At(x, k) < T!Span /\ At(x, k) % PgBytes = 0
           /\ \A q \in Nat : T!rounddown(x, PgBytes) = PgBytes * q =>
                 /\ T!rounddown(x, PgBytes) + (k - 1) * PgBytes = PgBytes * (q + k - 1)
                 /\ q + k - 1 < 2 * LowPages => At(x, k) = PgBytes * (q + k - 1)
<1>1. PICK q \in Nat : T!rounddown(x, PgBytes) = PgBytes * q
    BY RoundsDown
<1>2. PICK p \in Nat \ {0}, l \in Nat \ {0} :
          p = PgBytes /\ l = 2 * LowPages /\ T!Span = p * l
    BY Spans
<1>3. PICK j \in Nat : j = k - 1
    OBVIOUS
<1>4. p * q + j * p = p * (q + j)
    OBVIOUS
<1>5. PICK y \in Nat : y = q + j
    OBVIOUS
<1>6. At(x, k) = (p * y) % (p * l)
    BY <1>1, <1>2, <1>3, <1>4, <1>5 DEF At
<1>7. (p * y) % (p * l) = p * (y % l) /\ y % l \in Nat /\ y % l < l
    <2>1. (p * y) % (p * l) = p * (y % l)
        BY TimesMod
    <2>2. PICK i \in Nat, r \in Nat : r = y % l /\ r < l
        BY DivMod
    <2> QED BY <2>1, <2>2
<1>8. p * (y % l) < p * l /\ p * (y % l) \in Nat /\ (p * (y % l)) % p = 0
    <2>1. PICK z \in Nat : z = y % l /\ z < l
        BY <1>7
    <2>2. p * z < p * l /\ p * z \in Nat
        BY <2>1, TimesOrder
    <2>3. (p * z + 0) % p = 0 /\ p * z + 0 = p * z
        BY <2>2, DivModUnique
    <2> QED BY <2>1, <2>2, <2>3
<1>9. ASSUME NEW r \in Nat, T!rounddown(x, PgBytes) = PgBytes * r PROVE r = q
    <2>1. p * r = p * q
        BY <1>1, <1>2, <1>9
    <2> QED BY <2>1, TimesOrder
<1>10. q + k - 1 = y /\ T!rounddown(x, PgBytes) + (k - 1) * PgBytes = p * y
    BY <1>1, <1>2, <1>3, <1>4, <1>5
<1>11. y < l => y % l = y
    OBVIOUS
<1>12. y < l => At(x, k) = p * y
    BY <1>6, <1>7, <1>11
<1> QED BY <1>2, <1>6, <1>7, <1>8, <1>9, <1>10, <1>12

(***************************************************************************)
(* What alloc_pt does.                                                     *)
(***************************************************************************)
Filled(s, z, O, va, pa, n) ==
    /\ SpaceOK(z, O) /\ z.free \subseteq s.free
    /\ \A f \in O : z.tables[f] = s.tables[f]
    /\ z.mode = "run" =>
          /\ s.mode = "run" /\ T!rounddown(va, PgBytes) + PgBytes * n <= T!KERNEL_OFFSET
          /\ \A a \in T!UserPages :
                View(z.dir, z.tables, a) =
                   IF /\ a - T!rounddown(va, PgBytes) >= 0
                      /\ a - T!rounddown(va, PgBytes) < PgBytes * n
                   THEN (T!rounddown(pa, PgBytes) + (a - T!rounddown(va, PgBytes))) % T!Span
                   ELSE View(s.dir, s.tables, a)
    /\ s.mode # "smashed" /\ T!rounddown(va, PgBytes) + PgBytes * n <= T!KERNEL_OFFSET =>
          z.mode # "smashed"

(***************************************************************************)
(* The pages mapped after k - 1 turns and the page of turn k are the pages *)
(* mapped after k turns.                                                   *)
(***************************************************************************)
LEMMA FilledStep ==
    ASSUME T!SizesAssumption, T!RegionsAssumption, NEW O \in SUBSET PtFrames,
           NEW s, NEW va \in Nat, NEW pa \in Nat, NEW k \in Nat \ {0}, NEW y,
           Filled(s, y, O, va, pa, k - 1)
    PROVE  Filled(s, T!MapOne(y, At(va, k), At(pa, k)), O, va, pa, k)
<1>1. PICK z : z = T!MapOne(y, At(va, k), At(pa, k))
    OBVIOUS
<1>2. At(va, k) \in Nat /\ At(va, k) < T!Span /\ At(va, k) % PgBytes = 0 /\ At(pa, k) \in Nat
    BY Turns
<1>3. SpaceOK(y, O)
    BY DEF Filled
<1>4. Turned(y, z, O, At(va, k), At(pa, k))
    BY <1>1, <1>2, <1>3, MapOneKeeps
<1>5. PICK q \in Nat : T!rounddown(va, PgBytes) = PgBytes * q
    BY RoundsDown
<1>6. PICK p \in Nat \ {0}, l \in Nat \ {0}, K \in Nat :
          p = PgBytes /\ l = LowPages /\ K = p * l /\ K = T!KERNEL_OFFSET /\ T!Span = 2 * K
    BY Spans
<1>7. PICK j \in Nat : j = k - 1
    OBVIOUS
<1>8. /\ p * (q + j) = p * q + p * j /\ p * (q + k) = p * q + p * k /\ p * k = p * j + p
      /\ p * q \in Nat /\ p * j \in Nat /\ p * k \in Nat /\ j * p = p * j
    BY <1>7
<1>9. p * q + p * j <= K => At(va, k) = p * (q + j)
    <2>1. p * (q + j) <= p * l => q + j <= l
        BY TimesOrder
    <2>2. q + j <= l => q + k - 1 < 2 * LowPages
        BY <1>6, <1>7
    <2>3. q + k - 1 < 2 * LowPages => At(va, k) = PgBytes * (q + k - 1)
        BY <1>5, Turns
    <2>4. q + k - 1 = q + j
        BY <1>7
    <2> QED BY <1>6, <1>8, <2>1, <2>2, <2>3, <2>4
<1>10. /\ SpaceOK(z, O) /\ z.free \subseteq s.free /\ \A f \in O : z.tables[f] = s.tables[f]
    BY <1>4 DEF Turned, Filled
<1>11. ASSUME z.mode = "run"
       PROVE  /\ s.mode = "run" /\ p * q + p * k <= K
              /\ \A a \in T!UserPages :
                    View(z.dir, z.tables, a) =
                       IF a - p * q >= 0 /\ a - p * q < p * k
                       THEN (T!rounddown(pa, PgBytes) + (a - p * q)) % T!Span
                       ELSE View(s.dir, s.tables, a)
    <2>1. /\ y.mode = "run" /\ At(va, k) < K
          /\ \A a \in T!UserPages :
                View(z.dir, z.tables, a) =
                   IF a = At(va, k) THEN At(pa, k) ELSE View(y.dir, y.tables, a)
        BY <1>4, <1>6, <1>11 DEF Turned
    <2>2. /\ s.mode = "run" /\ p * q + p * j <= K
          /\ \A a \in T!UserPages :
                View(y.dir, y.tables, a) =
                   IF a - p * q >= 0 /\ a - p * q < p * j
                   THEN (T!rounddown(pa, PgBytes) + (a - p * q)) % T!Span
                   ELSE View(s.dir, s.tables, a)
        BY <1>5, <1>6, <1>7, <2>1 DEF Filled
    <2>3. At(va, k) = p * (q + j)
        BY <1>9, <2>2
    <2>4. p * q + p * k <= K
        <3>1. q + j < l
            <4>1. p * (q + j) < p * l
                BY <1>6, <2>1, <2>3
            <4> QED BY <4>1, TimesOrder
        <3>2. q + k <= l
            BY <1>7, <3>1
        <3>3. p * (q + k) <= p * l
            BY <3>2, TimesOrder
        <3> QED BY <1>6, <1>8, <3>3
    <2>5. ASSUME NEW a \in T!UserPages
          PROVE  View(z.dir, z.tables, a) =
                    IF a - p * q >= 0 /\ a - p * q < p * k
                    THEN (T!rounddown(pa, PgBytes) + (a - p * q)) % T!Span
                    ELSE View(s.dir, s.tables, a)
        <3>0. a \in Nat /\ a % p = 0
            BY <1>6, Spans DEF T!UserPages
        <3>1. PICK x \in Nat : a = p * x
            BY <3>0, MultipleOf
        <3>2. CASE a = At(va, k)
            <4>1. a - p * q = p * j /\ a - p * q >= 0 /\ a - p * q < p * k
                BY <1>8, <2>3, <3>0, <3>2
            <4>2. At(pa, k) = (T!rounddown(pa, PgBytes) + (a - p * q)) % T!Span
                BY <1>6, <1>7, <1>8, <4>1 DEF At
            <4>3. View(z.dir, z.tables, a) = At(pa, k)
                BY <2>1, <3>2
            <4> QED BY <4>1, <4>2, <4>3
        <3>3. CASE a # At(va, k)
            <4>1. a - p * q < p * k <=> a - p * q < p * j
                <5>1. a # p * (q + j)
                    BY <2>3, <3>3
                <5>2. x # q + j
                    BY <3>1, <5>1
                <5>3. a < p * (q + k) <=> x < q + k
                    BY <3>1, TimesOrder
                <5>4. a < p * (q + j) <=> x < q + j
                    BY <3>1, TimesOrder
                <5>5. x < q + k <=> x < q + j
                    BY <1>7, <5>2
                <5>6. a < p * (q + k) <=> a < p * (q + j)
                    BY <5>3, <5>4, <5>5
                <5> QED BY <1>8, <3>0, <5>6
            <4>2. View(z.dir, z.tables, a) = View(y.dir, y.tables, a)
                BY <2>1, <3>3
            <4> QED BY <2>2, <4>1, <4>2
        <3> QED BY <3>2, <3>3
    <2> QED BY <2>2, <2>4, <2>5
<1>12. ASSUME s.mode # "smashed", p * q + p * k <= K PROVE z.mode # "smashed"
    <2>1. p * q + p * j <= K /\ p * q + p * j < K
        BY <1>6, <1>8, <1>12
    <2>2. y.mode # "smashed"
        BY <1>5, <1>6, <1>7, <1>12, <2>1 DEF Filled
    <2>3. At(va, k) < K
        BY <1>8, <1>9, <2>1
    <2> QED BY <1>2, <1>4, <1>6, <2>2, <2>3 DEF Turned
<1> QED BY <1>1, <1>5, <1>6, <1>10, <1>11, <1>12 DEF Filled

(***************************************************************************)
(* alloc_pt, by induction over its turns: when it ends without stopping it *)
(* has mapped the pages asked for, one after the other, and no others.     *)
(***************************************************************************)
LEMMA AllocPtKeeps ==
    ASSUME T!SizesAssumption, T!RegionsAssumption, NEW O \in SUBSET PtFrames, NEW s, SpaceOK(s, O),
           NEW va \in Nat, va <= T!KERNEL_OFFSET, NEW pa \in Nat, NEW len \in Nat, NEW n \in Nat,
           T!roundup(len, PgBytes) = PgBytes * n
    PROVE  Filled(s, T!alloc_pt(s, va, pa, len), O, va, pa, n)
<1> DEFINE R(g) == g = [i \in 0..n |->
                         IF i = 0 THEN s ELSE T!MapOne(g[i - 1], At(va, i), At(pa, i))]
           turn == CHOOSE g : R(g)
           U == {z \in SpaceSet : SpaceOK(z, O)}
           step == [i \in 1..n |-> [z \in U |-> T!MapOne(z, At(va, i), At(pa, i))]]
<1>1. T!roundup(len, PgBytes) \div PgBytes = n
    BY PageMultiple
<1>2. T!alloc_pt(s, va, pa, len) = turn[n]
    BY <1>1 DEF T!alloc_pt, At
<1>3. s \in U
    BY DEF SpaceOK
<1>4. ASSUME NEW i \in 1..n, NEW z \in U PROVE T!MapOne(z, At(va, i), At(pa, i)) \in U
    <2>1. i \in Nat \ {0} /\ SpaceOK(z, O)
        OBVIOUS
    <2>2. At(va, i) \in Nat /\ At(va, i) < T!Span /\ At(va, i) % PgBytes = 0 /\ At(pa, i) \in Nat
        BY <2>1, Turns
    <2>3. SpaceOK(T!MapOne(z, At(va, i), At(pa, i)), O)
        BY <2>1, <2>2, MapOneKeeps DEF Turned
    <2> QED BY <2>3 DEF SpaceOK
<1> HIDE DEF U
<1>5. step \in [1..n -> [U -> U]]
    BY <1>4
<1>6. HasCourse(n, U, s, step)
    <2> HIDE DEF step
    <2>1. IsLoop(n, U, s, step)
        BY <1>3, <1>5 DEF IsLoop
    <2> QED BY <2>1, LoopRuns
<1>7. PICK f \in [0..n -> U] : f[0] = s /\ \A i \in 1..n : f[i] = step[i][f[i - 1]]
    <2> HIDE DEF step
    <2> QED BY <1>6 DEF HasCourse
<1>8. R(f)
    <2>1. ASSUME NEW i \in 0..n
          PROVE  f[i] = IF i = 0 THEN s ELSE T!MapOne(f[i - 1], At(va, i), At(pa, i))
        <3>1. i # 0 => i \in 1..n /\ i - 1 \in 0..n
            OBVIOUS
        <3>2. i # 0 => f[i - 1] \in U /\ f[i] = step[i][f[i - 1]]
            BY <1>7, <3>1
        <3> QED BY <1>7, <3>1, <3>2
    <2> QED BY <2>1
<1>9. R(turn)
    <2> HIDE DEF R
    <2> QED BY <1>8
<1>10. turn = [i \in 0..n |-> IF i = 0 THEN s ELSE T!MapOne(turn[i - 1], At(va, i), At(pa, i))]
    BY <1>9
<1> HIDE DEF turn
<1> DEFINE G == {i \in 0..n : Filled(s, turn[i], O, va, pa, i)}
<1>11. 0 \in G
    <2>1. turn[0] = s
        BY <1>10
    <2>2. PICK q \in Nat : T!rounddown(va, PgBytes) = PgBytes * q /\ PgBytes * q <= va
        BY RoundsDown
    <2>3. PICK A \in Nat : A = T!rounddown(va, PgBytes) /\ A <= va
        <3>1. PICK p \in Nat \ {0} : p = PgBytes
            BY Spans
        <3>2. p * q \in Nat
            OBVIOUS
        <3> QED BY <2>2, <3>1, <3>2
    <2>4. PgBytes * 0 = 0 /\ A + 0 <= T!KERNEL_OFFSET
        <3>1. PICK p \in Nat \ {0}, K \in Nat : p = PgBytes /\ K = T!KERNEL_OFFSET
            BY Spans
        <3>2. p * 0 = 0 /\ A + 0 <= K
            BY <2>3, <3>1
        <3> QED BY <3>1, <3>2
    <2>5. \A a \in T!UserPages : ~(a - A >= 0 /\ a - A < 0)
        BY Spans DEF T!UserPages
    <2>6. Filled(s, s, O, va, pa, 0)
        BY <2>3, <2>4, <2>5 DEF Filled
    <2> QED BY <2>1, <2>6
<1>12. ASSUME NEW i \in 1..n, i - 1 \in G PROVE i \in G
    <2>1. i \in 0..n /\ i # 0 /\ i \in Nat \ {0}
        OBVIOUS
    <2>2. turn[i] = T!MapOne(turn[i - 1], At(va, i), At(pa, i))
        BY <1>10, <2>1
    <2>3. Filled(s, turn[i - 1], O, va, pa, i - 1)
        BY <1>12
    <2>4. Filled(s, turn[i], O, va, pa, i)
        BY <2>1, <2>2, <2>3, FilledStep
    <2> QED BY <2>1, <2>4
<1>13. G = 0..n
    <2>1. G \in SUBSET (0..n)
        OBVIOUS
    <2> HIDE DEF G
    <2> QED BY <1>11, <1>12, <2>1, LoopKeeps
<1>14. n \in 0..n
    OBVIOUS
<1> QED BY <1>2, <1>13, <1>14

-----------------------------------------------------------------------------
(***************************************************************************)
(* The tables of the other processes, and a step that alloc_pt makes for   *)
(* one of them.                                                            *)
(***************************************************************************)
PtOthers(p) == {f \in PtFrames : \E q \in Users : q # p /\ HasDir(q) /\ f \in TablesOf(pagedir[q])}

(***************************************************************************)
(* What alloc_pt is called on: the directory of a process, with the tables *)
(* of the other processes out of its reach.                                *)
(***************************************************************************)
LEMMA SpaceIsOK ==
    ASSUME T!RegionsAssumption, Spaces, tmode = "run", NEW p \in Users, HasDir(p),
           NEW U \in SUBSET PtFrames, U \subseteq tfree
    PROVE  SpaceOK(T!Space(p, U), PtOthers(p)) /\ PtOthers(p) \in SUBSET PtFrames
<1>1. PICK s : s = T!Space(p, U)
    OBVIOUS
<1>2. s = [mode |-> "run", dir |-> pagedir[p], tables |-> tables, free |-> U]
    BY <1>1 DEF T!Space
<1>3. s.mode = "run" /\ s.dir = pagedir[p] /\ s.tables = tables /\ s.free = U
    BY <1>2
<1>4. s \in SpaceSet
    BY <1>2 DEF SpaceSet, Spaces
<1>5. DirShape(s.dir) /\ TablesOf(s.dir) \cap s.free = {}
    BY <1>3 DEF Spaces
<1>6. TablesOf(s.dir) \cap PtOthers(p) = {}
    BY <1>3 DEF Spaces, PtOthers
<1>7. s.free \cap PtOthers(p) = {}
    BY <1>3 DEF Spaces, PtOthers
<1> QED BY <1>1, <1>4, <1>5, <1>6, <1>7 DEF SpaceOK, PtOthers

(***************************************************************************)
(* What a directory shows depends on the tables it points to and on no     *)
(* others.                                                                 *)
(***************************************************************************)
LEMMA ViewSame ==
    ASSUME T!SizesAssumption, NEW d, DirShape(d), NEW t, NEW u,
           \A g \in TablesOf(d) : t[g] = u[g], NEW va \in T!UserPages
    PROVE  View(d, t, va) = View(d, u, va)
<1>1. va \in Nat /\ va < T!KERNEL_OFFSET /\ va < T!Span
    BY Spans DEF T!UserPages
<1>2. T!Pde(va) \in Low
    BY <1>1, EntryOf, Spans DEF Low
<1>3. CASE d[T!Pde(va)] = Empty
    BY <1>3 DEF View
<1>4. CASE d[T!Pde(va)] # Empty
    <2>1. PICK f \in PtFrames : d[T!Pde(va)] = Users0(f)
        BY <1>2, <1>4 DEF DirShape
    <2>2. f \in TablesOf(d) /\ d[T!Pde(va)].a = f
        BY <1>2, <2>1, EntryFacts DEF TablesOf
    <2> QED BY <2>2 DEF View
<1> QED BY <1>3, <1>4

(***************************************************************************)
(* The state after alloc_pt for one process keeps the invariant: its own   *)
(* pages are the ones wanted, and the other processes see what they saw.   *)
(***************************************************************************)
LEMMA BecameKeeps ==
    ASSUME T!SizesAssumption, T!RegionsAssumption, Kernel, Spaces, Given, tmode = "run",
           NEW p \in Users, HasDir(p), NEW U \in SUBSET PtFrames, U \subseteq tfree,
           NEW va \in Nat, NEW pa \in Nat, NEW len, NEW n \in Nat,
           T!roundup(len, PgBytes) = PgBytes * n,
           NEW z, Filled(T!Space(p, U), z, PtOthers(p), va, pa, n),
           T!Became(p, z, T!Wanted(want[p], va, pa, len))
    PROVE  Kernel' /\ Spaces' /\ Given'
<1>1. /\ tmode' = z.mode /\ pagedir' = [pagedir EXCEPT ![p] = z.dir] /\ tables' = z.tables
      /\ tfree' = z.free /\ fb' = fb /\ kpagedir' = kpagedir
      /\ want' = IF z.mode = "run"
                 THEN [want EXCEPT ![p] = T!Wanted(want[p], va, pa, len)] ELSE want
    BY DEF T!Became, T!boot
<1>2. /\ z.mode \in {"run"} \cup PtStopped /\ z.dir \in [T!Pdes -> Entries]
      /\ z.tables \in [PtFrames -> [T!Ptes -> Leaf]] /\ z.free \in SUBSET PtFrames
      /\ DirShape(z.dir) /\ TablesOf(z.dir) \cap z.free = {} /\ TablesOf(z.dir) \cap PtOthers(p) = {}
      /\ z.free \cap PtOthers(p) = {}
    BY DEF Filled, SpaceOK, SpaceSet
<1>3. /\ T!Space(p, U).tables = tables /\ T!Space(p, U).dir = pagedir[p]
    BY DEF T!Space
<1>4. \A f \in PtOthers(p) : tables'[f] = tables[f]
    BY <1>1, <1>3 DEF Filled
<1>5. /\ pagedir'[p] = z.dir /\ \A q \in Users : q # p => pagedir'[q] = pagedir[q]
      /\ pagedir' = [q \in Users |-> pagedir'[q]]
    BY <1>1 DEF Spaces
<1>6. \A q \in Users : q # p /\ HasDir(q) => TablesOf(pagedir[q]) \subseteq PtOthers(p)
    BY DEF PtOthers, TablesOf
<1>7. Kernel'
    <2>1. tmode' \in {"run"} \cup PtStopped /\ tmode' \notin Booting
          /\ tmode' \notin {"identity", "paging"}
        BY <1>1, <1>2 DEF PtStopped, Booting
    <2>2. \A i \in T!KernelPdes : kpagedir[i] = T!IdentityDir(fb)[i]
        BY DEF Kernel, Booting
    <2> QED BY <1>1, <2>1, <2>2 DEF Kernel
<1>8. Entries' = Entries
    BY <1>1 DEF Entries
<1>9. \A d : DirShape(d) => DirShape(d)'
    BY <1>1 DEF DirShape
<1>10. Spaces'
    <2>1. ASSUME NEW q \in Users, HasDir(q)'
          PROVE  /\ pagedir'[q] \in [T!Pdes -> Entries'] /\ DirShape(pagedir[q])'
                 /\ TablesOf(pagedir'[q]) \cap tfree' = {}
        <3>1. CASE q = p
            BY <1>1, <1>2, <1>5, <1>8, <3>1 DEF DirShape
        <3>2. CASE q # p
            <4>1. HasDir(q) /\ pagedir'[q] = pagedir[q]
                BY <1>5, <2>1, <3>2 DEF HasDir
            <4>2. pagedir[q] \in [T!Pdes -> Entries] /\ DirShape(pagedir[q])
                BY <4>1 DEF Spaces
            <4>3. TablesOf(pagedir[q]) \cap z.free = {}
                BY <1>2, <1>6, <3>2, <4>1
            <4> QED BY <1>1, <1>8, <4>1, <4>2, <4>3 DEF DirShape
        <3> QED BY <3>1, <3>2
    <2>2. ASSUME NEW q \in Users, NEW r \in Users, q # r, HasDir(q)', HasDir(r)'
          PROVE  TablesOf(pagedir'[q]) \cap TablesOf(pagedir'[r]) = {}
        <3>1. CASE q = p
            <4>1. HasDir(r) /\ pagedir'[r] = pagedir[r]
                BY <1>5, <2>2, <3>1 DEF HasDir
            <4> QED BY <1>2, <1>5, <1>6, <2>2, <3>1, <4>1
        <3>2. CASE r = p
            <4>1. HasDir(q) /\ pagedir'[q] = pagedir[q]
                BY <1>5, <2>2, <3>2 DEF HasDir
            <4> QED BY <1>2, <1>5, <1>6, <2>2, <3>2, <4>1
        <3>3. CASE q # p /\ r # p
            BY <1>5, <2>2, <3>3 DEF HasDir, Spaces
        <3> QED BY <3>1, <3>2, <3>3
    <2>3. tables' \in [PtFrames -> [T!Ptes -> Leaf]] /\ tfree' \in SUBSET PtFrames
        BY <1>1, <1>2
    <2> QED BY <1>5, <2>1, <2>2, <2>3 DEF Spaces
<1> DEFINE w == T!Wanted(want[p], va, pa, len)
           Values == {T!Unmapped} \cup (0..(T!Span - 1))
<1>11. want[p] \in [T!UserPages -> Values] /\ want \in [Users -> [T!UserPages -> Values]]
    BY DEF Given
<1>12. PICK A \in Nat, B \in Nat, ext \in Nat, S \in Nat \ {0} :
           /\ A = T!rounddown(va, PgBytes) /\ B = T!rounddown(pa, PgBytes) /\ ext = PgBytes * n
           /\ S = T!Span
    <2>1. PICK g \in Nat \ {0} : g = PgBytes
        BY Spans
    <2>2. \A x \in Nat : g * x \in Nat
        OBVIOUS
    <2>3. T!rounddown(va, PgBytes) \in Nat /\ T!rounddown(pa, PgBytes) \in Nat
        BY <2>1, <2>2, RoundsDown
    <2> QED BY <2>1, <2>2, <2>3, Spans
<1>13. \A a \in T!UserPages :
          w[a] = IF a - A >= 0 /\ a - A < ext THEN (B + (a - A)) % S ELSE want[p][a]
    BY <1>12 DEF T!Wanted
<1>14. w \in [T!UserPages -> Values]
    <2>1. w = [a \in T!UserPages |-> w[a]]
        BY DEF T!Wanted
    <2>2. ASSUME NEW a \in T!UserPages PROVE w[a] \in Values
        <3>1. a \in Int
            BY Spans DEF T!UserPages
        <3>2. CASE a - A >= 0 /\ a - A < ext
            <4>1. PICK y \in Nat : y = B + (a - A)
                BY <3>1, <3>2
            <4>2. y % S \in 0..(S - 1)
                OBVIOUS
            <4> QED BY <1>12, <1>13, <3>2, <4>1, <4>2
        <3>3. CASE ~(a - A >= 0 /\ a - A < ext)
            BY <1>11, <1>13, <3>3
        <3> QED BY <3>2, <3>3
    <2> HIDE DEF w, Values
    <2> QED BY <2>1, <2>2
<1>15. want' \in [Users -> [T!UserPages -> Values]]
    <2> HIDE DEF w, Values
    <2> QED BY <1>1, <1>11, <1>14 DEF w
<1>16. ASSUME tmode' = "run", NEW q \in Users, HasDir(q)', NEW a \in T!UserPages
       PROVE  View(pagedir'[q], tables', a) = want'[q][a]
    <2>1. z.mode = "run" /\ want' = [want EXCEPT ![p] = w]
        BY <1>1, <1>16
    <2> HIDE DEF w
    <2>2. want'[p] = w /\ \A r \in Users : r # p => want'[r] = want[r]
        BY <1>11, <2>1
    <2>3. CASE q = p
        <3>1. View(z.dir, z.tables, a) = IF a - A >= 0 /\ a - A < ext THEN (B + (a - A)) % S
                                         ELSE View(pagedir[p], tables, a)
            BY <1>3, <1>12, <2>1 DEF Filled
        <3>2. View(pagedir[p], tables, a) = want[p][a]
            BY DEF Given
        <3> QED BY <1>1, <1>5, <1>13, <2>2, <2>3, <3>1, <3>2
    <2>4. CASE q # p
        <3>1. HasDir(q) /\ pagedir'[q] = pagedir[q]
            BY <1>5, <1>16, <2>4 DEF HasDir
        <3>2. DirShape(pagedir[q]) /\ \A g \in TablesOf(pagedir[q]) : tables'[g] = tables[g]
            BY <1>4, <1>6, <2>4, <3>1 DEF Spaces
        <3>3. View(pagedir[q], tables', a) = View(pagedir[q], tables, a)
            BY <3>2, ViewSame
        <3>4. View(pagedir[q], tables, a) = want[q][a]
            BY <3>1 DEF Given
        <3> QED BY <2>2, <2>4, <3>1, <3>3, <3>4
    <2> QED BY <2>3, <2>4
<1>17. Given'
    BY <1>15, <1>16 DEF Given
<1> QED BY <1>7, <1>10, <1>17

(***************************************************************************)
(* loadelf and sys_fork map a region below the kernel's half.              *)
(***************************************************************************)
LEMMA MapRegionKeeps ==
    ASSUME T!SizesAssumption, T!RegionsAssumption, PtInv, NEW p \in Users, NEW r \in Mapping,
           T!MapRegion(p, r)
    PROVE  PtInv'
<1>1. /\ tmode = "run" /\ HasDir(p) /\ base' = base /\ req' = req
      /\ T!Became(p, T!alloc_pt(T!Space(p, tfree), r.va, r.pa, r.len),
                  T!Wanted(want[p], r.va, r.pa, r.len))
    BY DEF T!MapRegion, HasDir
<1>2. Kernel /\ Spaces /\ Bases /\ Given /\ T!LimitHolds
    BY DEF PtInv
<1>3. PICK va \in Nat, pa \in Nat, len \in Nat : va = r.va /\ pa = r.pa /\ len = r.len
    BY DEF T!RegionsAssumption
<1>4. PICK g \in Nat \ {0}, l \in Nat \ {0}, K \in Nat :
          g = PgBytes /\ l = LowPages /\ K = g * l /\ K = T!KERNEL_OFFSET
    BY Spans
<1>5. va + len <= K
    BY <1>3, <1>4 DEF T!RegionsAssumption
<1>6. PICK q \in Nat : T!rounddown(va, PgBytes) = g * q /\ g * q <= va
    BY <1>4, RoundsDown
<1>7. PICK n \in Nat : T!roundup(len, PgBytes) = g * n
    BY <1>4, RoundsUp
<1>8. g * q + g * n <= K
    <2>1. g * q \in Nat /\ g * n \in Nat
        OBVIOUS
    <2>2. g * q <= g * l
        BY <1>4, <1>5, <1>6, <2>1
    <2>3. q <= l
        BY <2>2, TimesOrder
    <2>4. PICK j \in Nat : j = l - q
        BY <2>3
    <2>5. l = q + j /\ j <= l
        BY <2>4
    <2>6. g * (q + j) = g * q + g * j /\ g * j \in Nat
        OBVIOUS
    <2>7. len <= g * j
        BY <1>4, <1>5, <1>6, <2>1, <2>5, <2>6
    <2>8. g * n <= g * j
        BY <1>4, <1>7, <2>5, <2>7, RoundsUp
    <2> QED BY <1>4, <2>1, <2>5, <2>6, <2>8
<1>9. PICK z : z = T!alloc_pt(T!Space(p, tfree), va, pa, len)
    OBVIOUS
<1>10. tfree \in SUBSET PtFrames /\ tfree \subseteq tfree
    BY <1>2 DEF Spaces
<1>11. SpaceOK(T!Space(p, tfree), PtOthers(p)) /\ PtOthers(p) \in SUBSET PtFrames
    BY <1>1, <1>2, <1>10, SpaceIsOK
<1>12. Filled(T!Space(p, tfree), z, PtOthers(p), va, pa, n)
    <2>1. va <= T!KERNEL_OFFSET /\ T!roundup(len, PgBytes) = PgBytes * n
        BY <1>4, <1>5, <1>7
    <2> QED BY <1>9, <1>11, <2>1, AllocPtKeeps
<1>13. T!Became(p, z, T!Wanted(want[p], va, pa, len))
    BY <1>1, <1>3, <1>9
<1>14. Kernel' /\ Spaces' /\ Given'
    <2>1. T!roundup(len, PgBytes) = PgBytes * n
        BY <1>4, <1>7
    <2> QED BY <1>1, <1>2, <1>10, <1>12, <1>13, <2>1, BecameKeeps
<1>15. tmode' # "smashed"
    <2>1. tmode' = z.mode
        BY <1>13 DEF T!Became
    <2>2. T!Space(p, tfree).mode # "smashed"
        BY <1>1 DEF T!Space
    <2>3. T!rounddown(va, PgBytes) + PgBytes * n <= T!KERNEL_OFFSET
        BY <1>4, <1>6, <1>8
    <2> QED BY <1>12, <2>1, <2>2, <2>3 DEF Filled
<1>16. T!LimitHolds'
    BY <1>1, <1>2, <1>15 DEF T!LimitHolds
<1>17. Bases'
    BY <1>1, <1>2 DEF Bases
<1> QED BY <1>14, <1>16, <1>17 DEF PtInv

(***************************************************************************)
(* sys_mmap maps at mmap_base what is not refused.                         *)
(***************************************************************************)
LEMMA MapAtKeeps ==
    ASSUME T!SizesAssumption, T!RegionsAssumption, PtInv, tmode = "run", NEW p \in Users,
           HasDir(p), NEW pa \in Nat, NEW k \in Nat, NEW len \in Nat, len = PgBytes * k,
           NEW U \in SUBSET PtFrames, U \subseteq tfree,
           ~T!Refused(p, len), T!MapAt(p, pa, len, U)
    PROVE  PtInv'
<1>1. /\ T!Became(p, T!alloc_pt(T!Space(p, U), base[p], pa, len),
                  T!Wanted(want[p], base[p], pa, len))
      /\ base' = [base EXCEPT ![p] = T!NextBase(p, len)] /\ req' = [base |-> base[p], len |-> len]
    BY DEF T!MapAt
<1>2. Kernel /\ Spaces /\ Bases /\ Given /\ T!LimitHolds
    BY DEF PtInv
<1>3. PICK g \in Nat \ {0}, l \in Nat \ {0}, K \in Nat, S \in Nat \ {0} :
          /\ g = PgBytes /\ l = LowPages /\ K = g * l /\ K = T!KERNEL_OFFSET
          /\ S = T!Span
    BY Spans
<1>4. PICK x \in Nat : x = base[p] /\ x % g = 0 /\ x <= K
    BY <1>2, <1>3 DEF Bases
<1>5. PICK b \in Nat : x = g * b
    BY <1>4, MultipleOf
<1>6. T!rounddown(x, PgBytes) = x /\ T!roundup(len, PgBytes) = PgBytes * k
    BY <1>3, <1>5, PageMultiple
<1>7. PICK z : z = T!alloc_pt(T!Space(p, U), x, pa, len)
    OBVIOUS
<1>8. SpaceOK(T!Space(p, U), PtOthers(p)) /\ PtOthers(p) \in SUBSET PtFrames
    BY <1>2, SpaceIsOK
<1>9. Filled(T!Space(p, U), z, PtOthers(p), x, pa, k)
    BY <1>3, <1>4, <1>6, <1>7, <1>8, AllocPtKeeps
<1>10. T!Became(p, z, T!Wanted(want[p], x, pa, len))
    BY <1>1, <1>4, <1>7
<1>11. Kernel' /\ Spaces' /\ Given'
    BY <1>2, <1>6, <1>9, <1>10, BecameKeeps
<1>12. PICK M \in Int : M = T!MMAP_LIMIT /\ M <= K
    BY <1>3 DEF T!MMAP_LIMIT, T!SizesAssumption
<1>13. (x + len) % S < M /\ T!NextBase(p, len) = (x + len) % S
    <2>1. PICK y \in Nat : y = (x + len) % S
        BY <1>3
    <2>2. T!NextBase(p, len) = y /\ (T!Refused(p, len) <=> y >= M)
        BY <1>3, <1>4, <1>12, <2>1 DEF T!Refused, T!NextBase
    <2> QED BY <1>12, <2>1, <2>2
<1>14. (x + len) % S \in Nat /\ ((x + len) % S) % g = 0
    <2>1. x + len = g * (b + k)
        <3>1. g * (b + k) = g * b + g * k
            OBVIOUS
        <3> QED BY <1>3, <1>5, <3>1
    <2>2. PICK y \in Nat : y = b + k
        OBVIOUS
    <2>3. PICK w \in Nat : (g * y) % S = g * w
        BY <1>3, PageMultiple
    <2>4. g * w \in Nat /\ (g * w) % g = 0
        BY <1>3, PageMultiple
    <2> QED BY <2>1, <2>2, <2>3, <2>4
<1>15. Bases'
    <2>1. PICK y \in Nat : y = (x + len) % S /\ y <= K /\ y % PgBytes = 0
        BY <1>3, <1>12, <1>13, <1>14
    <2>2. base' = [base EXCEPT ![p] = y]
        BY <1>1, <1>13, <2>1
    <2> QED BY <1>2, <1>3, <2>1, <2>2 DEF Bases
<1>16. ASSUME x + len < S PROVE tmode' # "smashed" /\ x + len <= M
    <2>1. (x + len) % S = x + len
        <3>1. PICK y \in Nat : y = x + len
            OBVIOUS
        <3>2. y < S => y % S = y
            OBVIOUS
        <3> QED BY <1>16, <3>1, <3>2
    <2>2. x + len < M
        BY <1>13, <2>1
    <2>3. tmode' = z.mode
        BY <1>10 DEF T!Became
    <2>4. T!Space(p, U).mode # "smashed"
        BY DEF T!Space
    <2>5. T!rounddown(x, PgBytes) + PgBytes * k <= T!KERNEL_OFFSET
        BY <1>3, <1>6, <1>12, <2>2
    <2> QED BY <1>9, <1>12, <2>2, <2>3, <2>4, <2>5 DEF Filled
<1>17. T!LimitHolds'
    <2>1. req'.base = x /\ req'.len = len
        BY <1>1, <1>4
    <2> QED BY <1>3, <1>12, <1>16, <2>1 DEF T!LimitHolds
<1> QED BY <1>11, <1>15, <1>17 DEF PtInv

(***************************************************************************)
(* A NULL that is written through stops the system and changes nothing.    *)
(***************************************************************************)
LEMMA FaultKeeps ==
    ASSUME PtInv, tmode = "run", tmode' = "fault", fb' = fb, kpagedir' = kpagedir,
           pagedir' = pagedir, tables' = tables, tfree' = tfree, base' = base, want' = want,
           req' = req
    PROVE  PtInv'
<1>1. "fault" \in PtStopped /\ "fault" \notin Booting /\ "run" \notin Booting
      /\ "fault" \notin {"identity", "paging"}
    BY DEF PtStopped, Booting
<1>2. Kernel'
    BY <1>1 DEF PtInv, Kernel
<1>3. Spaces'
    BY DEF PtInv, Spaces, HasDir, DirShape, Entries
<1>4. Bases'
    BY DEF PtInv, Bases
<1>5. Given'
    BY DEF PtInv, Given
<1>6. T!LimitHolds'
    BY DEF PtInv, T!LimitHolds
<1> QED BY <1>2, <1>3, <1>4, <1>5, <1>6 DEF PtInv

(***************************************************************************)
(* Each outcome of sys_mmap: refused, the frame buffer, anonymous pages,   *)
(* none left.                                                              *)
(***************************************************************************)
LEMMA SysMmapKeeps ==
    ASSUME T!SizesAssumption, T!RegionsAssumption, PtInv, NEW p \in Users, NEW bytes \in Lens,
           NEW kind \in {"anon", "fb", "closed"}, T!SysMmap(p, bytes, kind)
    PROVE  PtInv' \/ UNCHANGED T!vars
<1>1. tmode = "run" /\ HasDir(p)
    BY DEF T!SysMmap, HasDir
<1>2. bytes \in Nat /\ bytes < T!Span
    BY DEF T!RegionsAssumption
<1>3. PICK k \in Nat : T!roundup(bytes, PgBytes) = PgBytes * k
    BY <1>2, RoundsUp
<1>4. PICK len \in Nat : len = T!roundup(bytes, PgBytes) /\ len = PgBytes * k
    <2>1. PICK g \in Nat \ {0} : g = PgBytes
        BY Spans
    <2>2. g * k \in Nat
        OBVIOUS
    <2> QED BY <1>3, <2>1, <2>2
<1>5. tfree \in SUBSET PtFrames /\ tfree \subseteq tfree /\ {} \in SUBSET PtFrames /\ {} \subseteq tfree
    BY DEF PtInv, Spaces
<1>6. CASE T!Refused(p, len) \/ kind = "closed"
    BY <1>4, <1>6 DEF T!SysMmap
<1>7. CASE ~T!Refused(p, len) /\ kind = "fb"
    <2>1. T!MapAt(p, fb.addr, len, tfree)
        BY <1>4, <1>7 DEF T!SysMmap
    <2>2. PICK pa \in Nat : pa = fb.addr
        BY DEF PtInv, Kernel, T!RegionsAssumption
    <2>3. T!MapAt(p, pa, len, tfree)
        BY <2>1, <2>2
    <2> QED BY <1>1, <1>4, <1>5, <1>7, <2>3, MapAtKeeps
<1>8. CASE ~T!Refused(p, len) /\ kind = "anon"
    <2>1. T!Anonymous(p, len)
        BY <1>4, <1>8 DEF T!SysMmap
    <2>2. CASE len = 0
        <3>1. PICK U \in {tfree, {}} : T!MapAt(p, 0, 0, U)
            BY <2>1, <2>2 DEF T!Anonymous
        <3>2. T!MapAt(p, 0, len, U) /\ 0 \in Nat /\ U \in SUBSET PtFrames /\ U \subseteq tfree
            BY <1>5, <2>2, <3>1
        <3> QED BY <1>1, <1>4, <1>8, <3>2, MapAtKeeps
    <2>3. CASE len > 0 /\ T!Fits(tfree, len)
        <3>1. PICK pa : pa = T!AllocPages(tfree, len)
            OBVIOUS
        <3>2. T!MapAt(p, pa, len, tfree \ T!Run(pa, len))
            BY <2>1, <2>3, <3>1 DEF T!Anonymous
        <3>3. pa \in tfree
            BY <2>3, <3>1 DEF T!Fits, T!AllocPages
        <3>4. pa \in Nat
            BY <1>5, <3>3 DEF T!RegionsAssumption
        <3>5. PICK U \in SUBSET PtFrames : U = tfree \ T!Run(pa, len) /\ U \subseteq tfree
            BY <1>5
        <3>6. T!MapAt(p, pa, len, U)
            BY <3>2, <3>5
        <3> QED BY <1>1, <1>4, <1>8, <3>4, <3>5, <3>6, MapAtKeeps
    <2>4. CASE ~(len = 0) /\ ~(len > 0 /\ T!Fits(tfree, len))
        <3>1. tmode' = "fault" /\ UNCHANGED <<T!boot, T!space>>
            BY <2>1, <2>4 DEF T!Anonymous
        <3>2. /\ fb' = fb /\ kpagedir' = kpagedir /\ pagedir' = pagedir /\ tables' = tables
              /\ tfree' = tfree /\ base' = base /\ want' = want /\ req' = req
            BY <3>1 DEF T!boot, T!space
        <3> QED BY <1>1, <3>1, <3>2, FaultKeeps
    <2> QED BY <2>2, <2>3, <2>4
<1> QED BY <1>6, <1>7, <1>8

(***************************************************************************)
(* copykvm gives a process a directory with the kernel's entries only.     *)
(***************************************************************************)
LEMMA NewDirectoryKeeps ==
    ASSUME T!SizesAssumption, T!RegionsAssumption, PtInv, NEW p \in Users, T!NewDirectory(p)
    PROVE  PtInv'
<1>1. tmode = "run" /\ "run" \notin Booting
    BY DEF T!NewDirectory, Booting
<1>2. Kernel /\ Spaces /\ Bases /\ Given /\ T!LimitHolds
    BY DEF PtInv
<1>3. CASE tfree = {}
    <2>1. tmode' = "fault" /\ UNCHANGED <<T!boot, T!space>>
        BY <1>3 DEF T!NewDirectory
    <2>2. /\ fb' = fb /\ kpagedir' = kpagedir /\ pagedir' = pagedir /\ tables' = tables
          /\ tfree' = tfree /\ base' = base /\ want' = want /\ req' = req
        BY <2>1 DEF T!boot, T!space
    <2> QED BY <1>1, <2>1, <2>2, FaultKeeps
<1>4. CASE tfree # {}
    <2>1. PICK d, bottom, none, f :
             /\ d = T!copykvm /\ none = [a \in T!UserPages |-> T!Unmapped]
             /\ bottom \in {0} \cup {T!roundup(r.va + r.len, PgBytes) : r \in Mapping}
             /\ pagedir' = [pagedir EXCEPT ![p] = d] /\ tfree' = tfree \ {f}
             /\ want' = [want EXCEPT ![p] = none] /\ base' = [base EXCEPT ![p] = bottom]
             /\ tmode' = tmode /\ fb' = fb /\ kpagedir' = kpagedir /\ tables' = tables
             /\ req' = req
        BY <1>4 DEF T!NewDirectory, T!boot
    <2>2. \A i \in T!KernelPdes : kpagedir[i] = T!IdentityDir(fb)[i]
        BY <1>1, <1>2 DEF Kernel
    <2>3. /\ d = [i \in T!Pdes |-> IF i \in T!KernelPdes THEN kpagedir[i] ELSE Empty]
        BY <2>1 DEF T!copykvm, Empty
    <2>4. /\ d \in [T!Pdes -> Entries] /\ \A i \in Low : d[i] = Empty
          /\ \A i \in T!KernelPdes : d[i] = T!IdentityDir(fb)[i]
        <3>1. Empty \in Entries /\ \A i \in T!KernelPdes : kpagedir[i] \in Entries
            BY <2>2 DEF Entries, Leaf
        <3>2. T!KernelPdes \subseteq T!Pdes
            BY DEF T!KernelPdes
        <3> QED BY <2>2, <2>3, <3>1, <3>2 DEF Low
    <2>5. DirShape(d) /\ TablesOf(d) = {}
        <3>1. \A f0 : Users0(f0) # Empty
            BY EntryFacts
        <3> QED BY <2>4, <3>1 DEF DirShape, TablesOf
    <2>6. /\ pagedir'[p] = d /\ \A q \in Users : q # p => pagedir'[q] = pagedir[q]
          /\ pagedir' = [q \in Users |-> pagedir'[q]]
        BY <1>2, <2>1 DEF Spaces
    <2>7. Kernel'
        BY <1>1, <1>2, <2>1 DEF Kernel
    <2>8. Spaces'
        <3>1. ASSUME NEW q \in Users, HasDir(q)'
              PROVE  /\ pagedir'[q] \in [T!Pdes -> Entries'] /\ DirShape(pagedir[q])'
                     /\ TablesOf(pagedir'[q]) \cap tfree' = {}
            <4>0. Entries' = Entries
                BY <2>1 DEF Entries
            <4>1. CASE q = p
                BY <2>1, <2>4, <2>5, <2>6, <4>0, <4>1 DEF DirShape
            <4>2. CASE q # p
                <5>1. HasDir(q) /\ pagedir'[q] = pagedir[q]
                    BY <2>6, <3>1, <4>2 DEF HasDir
                <5>2. pagedir[q] \in [T!Pdes -> Entries] /\ DirShape(pagedir[q])
                      /\ TablesOf(pagedir[q]) \cap tfree = {}
                    BY <1>2, <5>1 DEF Spaces
                <5>3. TablesOf(pagedir[q]) \cap tfree' = {}
                    BY <2>1, <5>2
                <5> QED BY <2>1, <4>0, <5>1, <5>2, <5>3 DEF DirShape
            <4> QED BY <4>1, <4>2
        <3>2. ASSUME NEW q \in Users, NEW r \in Users, q # r, HasDir(q)', HasDir(r)'
              PROVE  TablesOf(pagedir'[q]) \cap TablesOf(pagedir'[r]) = {}
            <4>1. CASE q = p \/ r = p
                BY <2>5, <2>6, <4>1
            <4>2. CASE q # p /\ r # p
                BY <1>2, <2>6, <3>2, <4>2 DEF HasDir, Spaces
            <4> QED BY <4>1, <4>2
        <3>3. tables' \in [PtFrames -> [T!Ptes -> Leaf]] /\ tfree' \in SUBSET PtFrames
            BY <1>2, <2>1 DEF Spaces
        <3> QED BY <2>6, <3>1, <3>2, <3>3 DEF Spaces
    <2>9. Bases'
        <3>1. PICK g \in Nat \ {0}, l \in Nat \ {0}, K \in Nat :
                  g = PgBytes /\ l = LowPages /\ K = g * l /\ K = T!KERNEL_OFFSET
            BY Spans
        <3>2. bottom \in Nat /\ bottom % g = 0 /\ bottom <= K
            <4>1. CASE bottom = 0
                <5>1. 0 % g = 0
                    OBVIOUS
                <5> QED BY <4>1, <5>1
            <4>2. CASE bottom # 0
                <5>1. PICK r \in Mapping : bottom = T!roundup(r.va + r.len, PgBytes)
                    BY <2>1, <4>2
                <5>2. PICK x \in Nat : x = r.va + r.len /\ x <= K
                    BY <3>1 DEF T!RegionsAssumption
                <5>3. PICK n \in Nat : bottom = g * n
                    BY <3>1, <5>1, <5>2, RoundsUp
                <5>4. g * n \in Nat /\ (g * n) % g = 0
                    BY <3>1, PageMultiple
                <5>5. x <= PgBytes * l /\ l <= LowPages
                    BY <3>1, <5>2
                <5>6. bottom <= K
                    BY <3>1, <5>1, <5>2, <5>5, RoundsUp
                <5> QED BY <5>3, <5>4, <5>6
            <4> QED BY <4>1, <4>2
        <3> QED BY <1>2, <2>1, <3>1, <3>2 DEF Bases
    <2>10. Given'
        <3>1. want \in [Users -> [T!UserPages -> {T!Unmapped} \cup (0..(T!Span - 1))]]
            BY <1>2 DEF Given
        <3>2. none \in [T!UserPages -> {T!Unmapped} \cup (0..(T!Span - 1))]
              /\ \A a \in T!UserPages : none[a] = T!Unmapped
            BY <2>1
        <3>3. want' \in [Users -> [T!UserPages -> {T!Unmapped} \cup (0..(T!Span - 1))]]
              /\ want'[p] = none /\ \A q \in Users : q # p => want'[q] = want[q]
            BY <2>1, <3>1, <3>2
        <3>4. ASSUME NEW q \in Users, HasDir(q)', NEW a \in T!UserPages
              PROVE  View(pagedir'[q], tables', a) = want'[q][a]
            <4>1. CASE q = p
                <5>1. a \in Nat /\ a < T!KERNEL_OFFSET /\ a < T!Span
                    BY Spans DEF T!UserPages
                <5>2. T!Pde(a) \in Low
                    BY <5>1, EntryOf, Spans DEF Low
                <5>3. View(d, tables', a) = T!Unmapped
                    BY <2>4, <5>2 DEF View
                <5> QED BY <2>6, <3>2, <3>3, <4>1, <5>3
            <4>2. CASE q # p
                <5>1. HasDir(q) /\ pagedir'[q] = pagedir[q]
                    BY <2>6, <3>4, <4>2 DEF HasDir
                <5>2. View(pagedir[q], tables, a) = want[q][a]
                    BY <1>1, <1>2, <5>1 DEF Given
                <5> QED BY <2>1, <3>3, <4>2, <5>1, <5>2
            <4> QED BY <4>1, <4>2
        <3> QED BY <3>3, <3>4 DEF Given
    <2>11. T!LimitHolds'
        BY <1>2, <2>1 DEF T!LimitHolds
    <2> QED BY <2>7, <2>8, <2>9, <2>10, <2>11 DEF PtInv
<1> QED BY <1>3, <1>4

(***************************************************************************)
(* The steps of the boot, and the start.                                   *)
(***************************************************************************)
LEMMA BootStepKeeps ==
    ASSUME T!SizesAssumption, PtInv, tmode \in Booting, tmode' \in Booting \cup {"run"},
           fb' = fb, UNCHANGED T!space, DOMAIN kpagedir' = T!Pdes,
           tmode' \in {"identity", "paging"} => kpagedir' = T!IdentityDir(fb),
           tmode' = "run" => \A i \in T!KernelPdes : kpagedir'[i] = T!IdentityDir(fb)[i]
    PROVE  PtInv'
<1>1. /\ pagedir' = pagedir /\ tables' = tables /\ tfree' = tfree /\ base' = base
      /\ want' = want /\ req' = req
    BY DEF T!space
<1>2. \A p \in Users : ~HasDir(p)
    BY DEF PtInv, Kernel
<1>3. \A p \in Users : ~HasDir(p)'
    BY <1>1, <1>2 DEF HasDir
<1>4. tmode' # "smashed" /\ (tmode' \notin Booting => tmode' = "run")
    BY DEF Booting
<1>5. Kernel'
    <2>1. fb \in Fbs
        BY DEF PtInv, Kernel
    <2> QED BY <1>3, <1>4, <2>1 DEF Kernel
<1>6. Spaces'
    BY <1>1, <1>3 DEF PtInv, Spaces
<1>7. Bases'
    BY <1>1 DEF PtInv, Bases
<1>8. Given'
    BY <1>1, <1>3 DEF PtInv, Given
<1>9. T!LimitHolds'
    BY <1>1, <1>4 DEF PtInv, T!LimitHolds
<1> QED BY <1>5, <1>6, <1>7, <1>8, <1>9 DEF PtInv

(***************************************************************************)
(* The invariant holds before the boot: no process has a directory.        *)
(***************************************************************************)
LEMMA PtStarts ==
    ASSUME T!SizesAssumption, T!RegionsAssumption, T!Init
    PROVE  PtInv
<1>1. /\ tmode = "boot" /\ fb \in Fbs /\ pagedir = [p \in Users |-> T!NoDir]
      /\ tables = [f \in PtFrames |-> T!EmptyTable] /\ tfree = PtFrames /\ base = [p \in Users |-> 0]
      /\ want = [p \in Users |-> [a \in T!UserPages |-> T!Unmapped]]
      /\ req = [base |-> 0, len |-> 0]
    BY DEF T!Init
<1>2. \A p \in Users : ~HasDir(p)
    BY <1>1 DEF HasDir
<1>3. Kernel
    <2>1. DOMAIN kpagedir = T!Pdes
        BY DEF T!Init, T!EmptyDir
    <2>2. "boot" \in Booting /\ "boot" \notin {"identity", "paging"}
        BY DEF Booting
    <2> QED BY <1>1, <1>2, <2>1, <2>2 DEF Kernel
<1>4. Spaces
    <2>1. T!EmptyTable \in [T!Ptes -> Leaf]
        BY DEF T!EmptyTable, Leaf, Empty
    <2> QED BY <1>1, <1>2, <2>1 DEF Spaces
<1>5. Bases
    <2>1. PICK g \in Nat \ {0}, K \in Nat : g = PgBytes /\ K = T!KERNEL_OFFSET
        BY Spans
    <2>2. 0 % g = 0 /\ 0 <= K
        OBVIOUS
    <2> QED BY <1>1, <2>1, <2>2 DEF Bases
<1>6. Given
    BY <1>1 DEF Given
<1>7. T!LimitHolds
    <2>1. PICK M \in Nat : M = T!MMAP_LIMIT
        BY Spans DEF T!MMAP_LIMIT, T!SizesAssumption
    <2>2. req.base + req.len = 0 /\ 0 <= M /\ tmode # "smashed"
        BY <1>1
    <2> QED BY <2>1, <2>2 DEF T!LimitHolds
<1> QED BY <1>3, <1>4, <1>5, <1>6, <1>7 DEF PtInv

(***************************************************************************)
(* Every step keeps the invariant; pg_clear_identity clears no entry of    *)
(* the upper half, since the kernel is loaded in the lower one.            *)
(***************************************************************************)
LEMMA PtSteps ==
    ASSUME T!SizesAssumption, T!RegionsAssumption, PtInv, [T!Next]_(T!vars)
    PROVE  PtInv'
<1>1. CASE UNCHANGED T!vars
    BY <1>1 DEF T!vars, PtInv, Kernel, Spaces, Bases, Given, T!LimitHolds, HasDir, DirShape, Entries
<1>2. DOMAIN kpagedir = T!Pdes
    BY DEF PtInv, Kernel
<1>3. CASE T!PgClear
    <2>1. tmode = "boot" /\ tmode' = "clear" /\ kpagedir' = T!EmptyDir /\ fb' = fb /\ UNCHANGED T!space
        BY <1>3 DEF T!PgClear
    <2>2. DOMAIN kpagedir' = T!Pdes
        BY <2>1 DEF T!EmptyDir
    <2> QED BY <2>1, <2>2, BootStepKeeps DEF Booting
<1>4. CASE T!PgIdentity
    <2>1. /\ tmode = "clear" /\ tmode' = "identity" /\ kpagedir' = T!IdentityDir(fb) /\ fb' = fb
          /\ UNCHANGED T!space
        BY <1>4 DEF T!PgIdentity
    <2>2. DOMAIN kpagedir' = T!Pdes
        BY <2>1 DEF T!IdentityDir
    <2> QED BY <2>1, <2>2, BootStepKeeps DEF Booting
<1>5. CASE T!PgEnable
    <2>1. /\ tmode = "identity" /\ tmode' = "paging" /\ kpagedir' = kpagedir /\ fb' = fb
          /\ UNCHANGED T!space
        BY <1>5 DEF T!PgEnable, T!boot
    <2>2. kpagedir' = T!IdentityDir(fb)
        BY <2>1 DEF PtInv, Kernel
    <2> QED BY <1>2, <2>1, <2>2, BootStepKeeps DEF Booting
<1>6. CASE T!PgClearIdentity
    <2>1. /\ tmode = "paging" /\ tmode' = "run" /\ fb' = fb /\ UNCHANGED T!space
          /\ kpagedir' = [i \in T!Pdes |-> IF i \in T!Cleared THEN T!Zero ELSE kpagedir[i]]
        BY <1>6 DEF T!PgClearIdentity
    <2>2. kpagedir = T!IdentityDir(fb)
        BY <2>1 DEF PtInv, Kernel
    <2>3. ASSUME NEW i \in T!KernelPdes PROVE i \notin T!Cleared
        <3>1. KPhysBase \in Nat /\ KPhysBase < T!KERNEL_OFFSET /\ KPhysBase < T!Span
            BY Spans DEF T!SizesAssumption
        <3>2. T!Pde(KPhysBase) \in T!Pdes /\ T!Pde(KPhysBase) \notin T!KernelPdes
            BY <3>1, EntryOf, Spans
        <3>3. T!KERNEL_OFFSET \in Nat /\ T!KERNEL_OFFSET < T!Span
            BY Spans
        <3>4. T!Pde(T!KERNEL_OFFSET) \in T!Pdes
            BY <3>3, EntryOf
        <3>5. PICK x \in Int, y \in Int : x = T!Pde(KPhysBase) /\ y = T!Pde(T!KERNEL_OFFSET)
            BY <3>2, <3>4 DEF T!Pdes
        <3>6. x < y
            BY <3>2, <3>5 DEF T!KernelPdes
        <3>7. i \in Int /\ i >= y
            BY <3>5 DEF T!KernelPdes, T!Pdes
        <3>8. ~(i <= x)
            BY <3>6, <3>7
        <3> QED BY <3>5, <3>8 DEF T!Cleared
    <2>4. \A i \in T!KernelPdes : kpagedir'[i] = T!IdentityDir(fb)[i]
        <3>1. T!KernelPdes \subseteq T!Pdes
            BY DEF T!KernelPdes
        <3> QED BY <2>1, <2>2, <2>3, <3>1
    <2>5. DOMAIN kpagedir' = T!Pdes
        BY <2>1
    <2> QED BY <2>1, <2>4, <2>5, BootStepKeeps DEF Booting
<1>7. ASSUME NEW p \in Users, T!NewDirectory(p) PROVE PtInv'
    BY <1>7, NewDirectoryKeeps
<1>8. ASSUME NEW p \in Users, NEW r \in Mapping, T!MapRegion(p, r) PROVE PtInv'
    BY <1>8, MapRegionKeeps
<1>9. ASSUME NEW p \in Users, NEW n \in Lens, NEW kind \in {"anon", "fb", "closed"},
             T!SysMmap(p, n, kind)
      PROVE  PtInv'
    BY <1>1, <1>9, SysMmapKeeps
<1>10. CASE T!Stopped
    BY <1>1, <1>10 DEF T!Stopped
<1> QED BY <1>1, <1>3, <1>4, <1>5, <1>6, <1>7, <1>8, <1>9, <1>10 DEF T!Next

-----------------------------------------------------------------------------
(***************************************************************************)
(* What the invariant says of the processor's walks.  In the upper half    *)
(* every directory has the kernel's big pages.                             *)
(***************************************************************************)
KernelHalf(d) == DOMAIN d = T!Pdes /\ \A i \in T!KernelPdes : d[i] = T!IdentityDir(fb)[i]

(***************************************************************************)
(* The directories the machine may have loaded all have the entries of     *)
(* pg_identity in the upper half.                                          *)
(***************************************************************************)
LEMMA DirectoriesKernel ==
    ASSUME PtInv, tmode = "run", NEW d \in T!Directories
    PROVE  KernelHalf(d)
<1>1. "run" \notin Booting
    BY DEF Booting
<1>2. CASE d = kpagedir
    BY <1>1, <1>2 DEF PtInv, Kernel, KernelHalf
<1>3. CASE d # kpagedir
    <2>1. PICK p \in Users : HasDir(p) /\ d = pagedir[p]
        BY <1>3 DEF T!Directories, HasDir
    <2> QED BY <2>1 DEF PtInv, Spaces, DirShape, KernelHalf
<1> QED BY <1>2, <1>3

(***************************************************************************)
(* A walk in the upper half ends in a big page, which user code may not    *)
(* use.                                                                    *)
(***************************************************************************)
LEMMA KernelWalk ==
    ASSUME T!SizesAssumption, NEW d, KernelHalf(d), NEW va \in Nat,
           T!KERNEL_OFFSET <= va, va < T!Span
    PROVE  /\ T!Walk(d, va) = [a |-> T!IdentityDir(fb)[T!Pde(va)].a + (va % T!BigSize),
                               user |-> FALSE]
           /\ T!Pde(va) \in T!KernelPdes
<1>1. T!Pde(va) \in T!Pdes /\ (T!Pde(va) \in T!KernelPdes <=> va >= T!KERNEL_OFFSET)
    BY EntryOf
<1>2. T!Pde(va) \in T!KernelPdes
    BY <1>1, Spans
<1>3. PICK e : e = d[T!Pde(va)] /\ e = T!IdentityDir(fb)[T!Pde(va)]
    BY <1>2 DEF KernelHalf
<1>4. T!Present(e) /\ "PSE" \in e.fl /\ "US" \notin e.fl
    BY <1>1, <1>3, BigEntry
<1>5. T!Walk(d, va) = [a |-> e.a + (va % T!BigSize), user |-> "US" \in e.fl]
    BY <1>3, <1>4 DEF T!Walk
<1>6. ("US" \in e.fl) = FALSE
    BY <1>4
<1> QED BY <1>2, <1>3, <1>5, <1>6

(***************************************************************************)
(* p2v of a page reaches the page: the offset that pg_identity adds in u32 *)
(* takes the offset of p2v away again.                                     *)
(***************************************************************************)
LEMMA KernelReachesHolds ==
    ASSUME T!SizesAssumption, T!RegionsAssumption, PtInv
    PROVE  T!KernelReaches
<1> SUFFICES ASSUME tmode = "run", NEW d \in T!Directories, NEW f \in PtFrames,
                    T!Pde(T!p2v(f)) \notin T!FbPdes(fb)
             PROVE  T!Walk(d, T!p2v(f)) = [a |-> f, user |-> FALSE]
    BY DEF T!KernelReaches
<1>1. PICK B \in Nat \ {0}, h \in Nat \ {0}, K \in Nat \ {0}, S \in Nat \ {0} :
          /\ B = T!BigSize /\ h = Half /\ K = B * h /\ K = T!KERNEL_OFFSET /\ S = T!Span
          /\ S = 2 * K
    BY Spans
<1>2. f \in Nat /\ f < K
    BY <1>1 DEF T!RegionsAssumption
<1>3. PICK va \in Nat : va = T!p2v(f) /\ va = f + K
    <2>1. f % K = f
        BY <1>2
    <2> QED BY <1>1, <1>2, <2>1 DEF T!p2v, T!v2p
<1>4. K <= va /\ va < S
    BY <1>1, <1>2, <1>3
<1>5. KernelHalf(d)
    BY DirectoriesKernel
<1>6. /\ T!Walk(d, va) = [a |-> T!IdentityDir(fb)[T!Pde(va)].a + (va % T!BigSize), user |-> FALSE]
      /\ T!Pde(va) \in T!KernelPdes
    BY <1>1, <1>4, <1>5, KernelWalk
<1>7. PICK i \in Nat, k \in Nat : i = T!Pde(va) /\ k = va % B /\ k < B /\ va = B * i + k
    <2>1. T!Pde(va) \in Nat
        BY <1>6 DEF T!KernelPdes, T!Pdes
    <2> QED BY <1>1, <1>4, <2>1, EntryOf
<1>8. T!IdentityDir(fb)[i].a = (i * B + K) % S
    <2>1. i \in T!Pdes /\ i \in T!KernelPdes \ T!FbPdes(fb)
        BY <1>3, <1>6, <1>7 DEF T!KernelPdes
    <2> QED BY <1>1, <2>1, BigEntry
<1>9. h <= i
    <2>1. ASSUME i < h PROVE FALSE
        <3>1. i + 1 <= h /\ i + 1 \in Int
            BY <2>1
        <3>2. B * (i + 1) <= B * h
            BY <3>1, TimesOrder
        <3>3. B * (i + 1) = B * i + B /\ B * i \in Nat
            OBVIOUS
        <3> QED BY <1>1, <1>4, <1>7, <3>2, <3>3
    <2> QED BY <2>1
<1>10. PICK y \in Nat, ext \in Nat : ext = B * i /\ ext = K + y /\ i * B = ext
    <2>1. B * h <= B * i
        BY <1>9, TimesOrder
    <2>2. B * i \in Nat /\ i * B = B * i
        OBVIOUS
    <2>3. B * i - K \in Nat
        BY <1>1, <2>1, <2>2
    <2> QED BY <2>2, <2>3
<1>11. va = ext + k
    BY <1>7, <1>10
<1>12. (i * B + K) % S = y
    <2>1. ext + K = S * 1 + y /\ y < S
        BY <1>1, <1>4, <1>10, <1>11
    <2>2. (S * 1 + y) % S = y
        BY <2>1, DivModUnique
    <2> QED BY <1>10, <2>1, <2>2
<1>13. y + k = f
    BY <1>2, <1>3, <1>10, <1>11
<1>14. T!IdentityDir(fb)[i].a + (va % T!BigSize) = f
    BY <1>1, <1>7, <1>8, <1>12, <1>13
<1> QED BY <1>3, <1>6, <1>7, <1>14

(***************************************************************************)
(* A frame buffer that starts on a big page lies in the entries that       *)
(* pg_identity leaves as they are.                                         *)
(***************************************************************************)
FbFits(addr, size) ==
    /\ addr % T!BigSize = 0 /\ addr >= T!KERNEL_OFFSET /\ addr + size <= T!Span
    /\ addr + T!roundup(size, T!BigSize) < T!Span

(***************************************************************************)
(* Every address of the frame buffer has an entry between the first and    *)
(* the last one.                                                           *)
(***************************************************************************)
LEMMA FbEntries ==
    ASSUME T!SizesAssumption, NEW addr \in Nat, NEW size \in Nat, FbFits(addr, size),
           NEW va \in Nat, addr <= va, va < addr + size
    PROVE  T!Pde(va) >= T!Pde(addr)
           /\ T!Pde(va) <= T!Pde((addr + T!roundup(size, T!BigSize)) % T!Span) - 1
<1>1. PICK B \in Nat \ {0}, h \in Nat \ {0}, K \in Nat \ {0}, S \in Nat \ {0} :
          /\ B = T!BigSize /\ h = Half /\ K = B * h /\ K = T!KERNEL_OFFSET /\ S = T!Span
          /\ S = 2 * K
    BY Spans
<1>2. PICK j \in Nat : addr = B * j
    <2>1. addr % B = 0
        BY <1>1 DEF FbFits
    <2> QED BY <2>1, MultipleOf
<1>3. PICK u \in Nat : T!roundup(size, T!BigSize) = B * u /\ size <= B * u
    <2>1. PICK q \in Nat, k \in Nat :
              q = size \div B /\ k = size % B /\ k < B /\ size = B * q + k
        BY DivMod
    <2>2. B * q \in Nat /\ B * (q + 1) = B * q + B
        OBVIOUS
    <2>3. CASE k = 0
        <3>1. size = B * q /\ T!roundup(size, B) = size
            BY <2>1, <2>2, <2>3 DEF T!roundup
        <3> QED BY <1>1, <2>2, <3>1
    <2>4. CASE k # 0
        <3>1. size <= K
            BY <1>1 DEF FbFits
        <3>2. q < h
            <4>1. ASSUME h <= q PROVE FALSE
                <5>1. B * h <= B * q
                    BY <4>1, TimesOrder
                <5> QED BY <1>1, <2>1, <2>2, <2>4, <3>1, <5>1
            <4> QED BY <4>1
        <3>3. B * (q + 1) <= K
            <4>1. q + 1 <= h /\ q + 1 \in Int
                BY <3>2
            <4> QED BY <1>1, <4>1, TimesOrder
        <3>4. PICK y \in Nat : y = B * (q + 1) /\ y < S
            BY <1>1, <2>2, <3>3
        <3>5. y % S = y
            BY <3>4
        <3>6. T!roundup(size, T!BigSize) = y
            BY <1>1, <2>1, <2>2, <2>4, <3>4, <3>5 DEF T!roundup
        <3>7. size <= y
            BY <2>1, <2>2, <3>4
        <3> QED BY <3>4, <3>6, <3>7
    <2> QED BY <2>3, <2>4
<1>4. B * j \in Nat /\ B * u \in Nat /\ B * (j + u) = B * j + B * u
    OBVIOUS
<1>5. PICK end \in Nat : end = addr + T!roundup(size, T!BigSize) /\ end = B * (j + u) /\ end < S
    BY <1>1, <1>2, <1>3, <1>4 DEF FbFits
<1>6. end % T!Span = end
    BY <1>1, <1>5
<1>7. T!Pde(addr) = j /\ T!Pde(end) = j + u
    <2>1. (B * j) \div B = j /\ (B * (j + u)) \div B = j + u
        <3>1. B * j = B * j + 0 /\ B * (j + u) = B * (j + u) + 0 /\ 0 < B /\ j + u \in Nat
            BY <1>4
        <3> QED BY <3>1, DivModUnique
    <2> QED BY <1>1, <1>2, <1>5, <2>1 DEF T!Pde
<1>8. PICK i \in Nat, k \in Nat : i = va \div B /\ k < B /\ va = B * i + k
    BY DivMod
<1>9. T!Pde(va) = i
    BY <1>1, <1>8 DEF T!Pde
<1>10. B * i \in Nat /\ B * (i + 1) = B * i + B
    OBVIOUS
<1>11. j <= i
    <2>1. B * j < B * (i + 1)
        BY <1>2, <1>4, <1>8, <1>10
    <2>2. j < i + 1
        BY <2>1, TimesOrder
    <2> QED BY <2>2
<1>12. i < j + u
    <2>1. B * i < B * (j + u)
        BY <1>2, <1>3, <1>4, <1>8, <1>10
    <2> QED BY <2>1, TimesOrder
<1> QED BY <1>5, <1>6, <1>7, <1>9, <1>11, <1>12

(***************************************************************************)
(* So a walk from an address of the frame buffer ends at the same address. *)
(***************************************************************************)
LEMMA FbReachedHolds ==
    ASSUME T!SizesAssumption, T!RegionsAssumption, PtInv
    PROVE  T!FbReached
<1>1. PICK addr \in Nat, size \in Nat : addr = fb.addr /\ size = fb.size /\ addr + size <= T!Span
    BY DEF PtInv, Kernel, T!RegionsAssumption
<1> SUFFICES ASSUME tmode = "run", addr % T!BigSize = 0, addr >= T!KERNEL_OFFSET,
                    addr + T!roundup(size, T!BigSize) < T!Span,
                    NEW d \in T!Directories, NEW va \in addr..(addr + size - 1)
             PROVE  T!Walk(d, va) = [a |-> va, user |-> FALSE]
    BY <1>1 DEF T!FbReached
<1>2. PICK B \in Nat \ {0}, K \in Nat \ {0}, S \in Nat \ {0} :
          B = T!BigSize /\ K = T!KERNEL_OFFSET /\ S = T!Span
    BY Spans
<1>3. va \in Nat /\ addr <= va /\ va < addr + size /\ K <= va /\ va < S
    BY <1>1, <1>2
<1>4. KernelHalf(d)
    BY DirectoriesKernel
<1>5. /\ T!Walk(d, va) = [a |-> T!IdentityDir(fb)[T!Pde(va)].a + (va % T!BigSize), user |-> FALSE]
      /\ T!Pde(va) \in T!KernelPdes
    BY <1>2, <1>3, <1>4, KernelWalk
<1>6. PICK i \in Nat : i = T!Pde(va) /\ i \in T!Pdes
    BY <1>5 DEF T!KernelPdes, T!Pdes
<1>7. T!Pde(va) >= T!Pde(addr)
      /\ T!Pde(va) <= T!Pde((addr + T!roundup(size, T!BigSize)) % T!Span) - 1
    <2>1. FbFits(addr, size)
        BY <1>1 DEF FbFits
    <2> QED BY <1>2, <1>3, <2>1, FbEntries
<1>8. i \in T!FbPdes(fb)
    <2>1. T!Pde(addr) \in Int
        <3>1. addr \in Nat /\ addr < T!Span
            BY <1>2, <1>3
        <3> QED BY <3>1, EntryOf DEF T!Pdes
    <2>2. PICK end \in Nat : end = (addr + T!roundup(size, T!BigSize)) % T!Span
        <3>1. T!roundup(size, T!BigSize) \in Nat
            <4>1. size % B \in Nat /\ size % B < B /\ \A x \in Nat : x % S \in Nat
                OBVIOUS
            <4>2. size + B - (size % B) \in Nat
                BY <4>1
            <4> QED BY <1>2, <4>1, <4>2 DEF T!roundup
        <3>2. \A x \in Nat : x % S \in Nat
            OBVIOUS
        <3>3. addr + T!roundup(size, T!BigSize) \in Nat
            BY <3>1
        <3> QED BY <1>2, <3>2, <3>3
    <2>3. T!Pde(end) \in Int
        BY <1>2 DEF T!Pde
    <2> QED BY <1>1, <1>6, <1>7, <2>1, <2>2, <2>3 DEF T!FbPdes
<1>9. T!IdentityDir(fb)[i].a = i * B
    BY <1>2, <1>6, <1>8, BigEntry
<1>10. va = B * i + (va % B) /\ va % B \in Nat /\ B * i = i * B
    <2>1. va = T!BigSize * T!Pde(va) + (va % T!BigSize)
        BY <1>2, <1>3, EntryOf
    <2> QED BY <1>2, <1>6, <2>1
<1> QED BY <1>2, <1>5, <1>6, <1>9, <1>10

(***************************************************************************)
(* A walk in the lower half ends at the page that was wanted there.        *)
(***************************************************************************)
LEMMA WalkAgreesHolds ==
    ASSUME T!SizesAssumption, PtInv
    PROVE  T!WalkAgrees
<1> SUFFICES ASSUME tmode = "run", NEW p \in Users, HasDir(p), NEW va \in T!UserPages
             PROVE  T!Walk(pagedir[p], va) = [a |-> want[p][va], user |-> want[p][va] # T!Unmapped]
    BY DEF T!WalkAgrees, HasDir
<1>1. DirShape(pagedir[p]) /\ tables \in [PtFrames -> [T!Ptes -> Leaf]]
    BY DEF PtInv, Spaces
<1>2. View(pagedir[p], tables, va) = want[p][va]
    BY DEF PtInv, Given
<1> QED BY <1>1, <1>2, WalkView

(***************************************************************************)
(* The invariant gives the types.                                          *)
(***************************************************************************)
LEMMA PtTyped ==
    ASSUME T!SizesAssumption, PtInv
    PROVE  T!TypeOK
<1>1. tmode \in {"boot", "clear", "identity", "paging", "run", "fault", "smashed"} /\ fb \in Fbs
    BY DEF PtInv, Kernel, Booting, PtStopped
<1>2. ASSUME NEW d \in T!Directories PROVE DOMAIN d = T!Pdes
    <2>1. CASE d = kpagedir
        BY <2>1 DEF PtInv, Kernel
    <2>2. CASE d # kpagedir
        <3>1. PICK p \in Users : HasDir(p) /\ d = pagedir[p]
            BY <2>2 DEF T!Directories, HasDir
        <3> QED BY <3>1 DEF PtInv, Spaces, DirShape
    <2> QED BY <2>1, <2>2
<1>3. base \in [Users -> 0..(T!Span - 1)]
    <2>1. PICK K \in Nat \ {0} : K = T!KERNEL_OFFSET /\ T!Span = 2 * K
        BY Spans
    <2>2. base \in [Users -> Nat] /\ \A p \in Users : base[p] <= K
        BY <2>1 DEF PtInv, Bases
    <2>3. \A p \in Users : base[p] \in 0..(2 * K - 1)
        BY <2>2
    <2> QED BY <2>1, <2>2, <2>3
<1>4. tfree \subseteq PtFrames /\ want \in [Users -> [T!UserPages -> {T!Unmapped} \cup (0..(T!Span - 1))]]
    BY DEF PtInv, Spaces, Given
<1> QED BY <1>1, <1>2, <1>3, <1>4 DEF T!TypeOK

(***************************************************************************)
(* The invariant holds in every state.                                     *)
(***************************************************************************)
LEMMA PtInvAlways ==
    ASSUME T!SizesAssumption, T!RegionsAssumption
    PROVE  T!Spec => []PtInv
<1>1. T!Init => PtInv
    BY PtStarts
<1>2. PtInv /\ [T!Next]_(T!vars) => PtInv'
    BY PtSteps
<1> QED BY <1>1, <1>2, PTL DEF T!Spec

(***************************************************************************)
(* For any sizes, pages, frame buffer, regions and requests: in every      *)
(* directory the machine may have loaded, the kernel reaches each page of  *)
(* the allocator at p2v of its address, reaches all of a frame buffer that *)
(* starts on a big page of the upper half, and user code reaches neither   *)
(* (pg_identity, pg_clear_identity, copykvm, alloc_pt).                    *)
(***************************************************************************)
THEOREM ReachedAlways == T!Spec => []Reached
<1>1. T!SizesAssumption /\ T!RegionsAssumption
    BY PagingAssumption
<1>2. PtInv => Reached
    BY <1>1, KernelReachesHolds, FbReachedHolds DEF Reached, T!Reached
<1>3. T!Spec => []PtInv
    BY <1>1, PtInvAlways
<1> QED BY <1>2, <1>3, PTL

(***************************************************************************)
(* For the same: the types, of Vm's regions too (for images linked below   *)
(* MMAP_LIMIT), and a process reaches at each of its pages the             *)
(* page it was last given there and nothing elsewhere, whatever the order  *)
(* of copykvm, alloc_pt and sys_mmap in all processes; sys_mmap's test of  *)
(* MMAP_LIMIT keeps alloc_pt out of the kernel's half for every length     *)
(* whose sum with mmap_base does not wrap.                                 *)
(***************************************************************************)
THEOREM MappedAlways == Spec /\ T!Spec => []Mapped
<1>1. T!SizesAssumption /\ T!RegionsAssumption
    BY PagingAssumption
<1>2. PtInv => T!TypeOK /\ T!Mapped
    BY <1>1, WalkAgreesHolds, PtTyped DEF PtInv, T!Mapped
<1>3. T!Spec => []PtInv
    BY <1>1, PtInvAlways
<1>4. TypeOK /\ PtInv => Mapped
    BY <1>2 DEF Mapped
<1> QED BY <1>3, <1>4, VmTypeCorrect, PTL
-----------------------------------------------------------------------------
(***************************************************************************)
(* loadelf.  The sizes in pages: of the stack, of what lies below the      *)
(* kernel and of the address space.                                        *)
(***************************************************************************)
SizesAre(sp, kp, wp) ==
    /\ ElfStack = ElfPage * sp /\ ElfKernel = ElfPage * kp /\ Word = ElfPage * wp
    /\ 0 < sp /\ sp < kp /\ kp < wp

(***************************************************************************)
(* What the loader assumes of a page and of memory.                        *)
(***************************************************************************)
LEMMA PageFacts == ElfPage \in Nat \ {0} /\ ElfPage > 1 /\ Ram \in Nat
BY LoaderAssumption DEF E!ElfAssumption

(***************************************************************************)
(* The stack, the kernel's base and the address space are whole pages.     *)
(***************************************************************************)
LEMMA SizeFacts == \E sp \in Nat, kp \in Nat, wp \in Nat : SizesAre(sp, kp, wp)
<1>1. /\ ElfStack \in Nat /\ ElfKernel \in Nat /\ Word \in Nat
      /\ Word % ElfPage = 0 /\ ElfKernel % ElfPage = 0 /\ ElfStack % ElfPage = 0
      /\ 0 < ElfStack /\ ElfStack < ElfKernel /\ ElfKernel < Word
    BY LoaderAssumption DEF E!ElfAssumption
<1>2. ASSUME NEW x \in Nat, x % ElfPage = 0 PROVE \E q \in Nat : x = ElfPage * q
    <2>1. PICK q \in Nat, k \in Nat : q = x \div ElfPage /\ k = x % ElfPage /\ k < ElfPage /\ x = ElfPage * q + k
        BY PageFacts, DivMod
    <2>2. ElfPage * q \in Nat /\ k = 0
        BY <1>2, <2>1, PageFacts
    <2> QED BY <2>1, <2>2
<1>3. PICK sp \in Nat : ElfStack = ElfPage * sp
    BY <1>1, <1>2
<1>4. PICK kp \in Nat : ElfKernel = ElfPage * kp
    BY <1>1, <1>2
<1>5. PICK wp \in Nat : Word = ElfPage * wp
    BY <1>1, <1>2
<1>6. sp < kp /\ kp < wp
    BY <1>1, <1>3, <1>4, <1>5, PageFacts, TimesOrder
<1>7. 0 < sp
    BY <1>1, <1>3, PageFacts
<1> QED BY <1>3, <1>4, <1>5, <1>6, <1>7 DEF SizesAre

(***************************************************************************)
(* Rounding.                                                               *)
(***************************************************************************)
LEMMA Down ==
    ASSUME NEW a \in Nat
    PROVE  E!rounddown(a) = ElfPage * (a \div ElfPage)
<1>1. PICK q \in Nat, k \in Nat : q = a \div ElfPage /\ k = a % ElfPage /\ k < ElfPage /\ a = ElfPage * q + k
    BY PageFacts, DivMod
<1>2. ElfPage * q \in Nat
    BY PageFacts
<1> QED BY <1>1, <1>2 DEF E!rounddown

(***************************************************************************)
(* Rounding leaves a whole number of pages as it is.                       *)
(***************************************************************************)
LEMMA UpExact ==
    ASSUME NEW q \in Nat
    PROVE  /\ E!roundup(ElfPage * q) = ElfPage * q
           /\ E!rounddown(ElfPage * q) = ElfPage * q
           /\ (ElfPage * q) \div ElfPage = q /\ (ElfPage * q) % ElfPage = 0
<1>1. PICK x \in Nat : x = ElfPage * q /\ x = ElfPage * q + 0
    BY PageFacts
<1>2. x \div ElfPage = q /\ x % ElfPage = 0
    BY <1>1, PageFacts, DivModUnique
<1>3. E!roundup(x) = x /\ E!rounddown(x) = x
    BY <1>2 DEF E!roundup, E!rounddown
<1> QED BY <1>1, <1>2, <1>3

(***************************************************************************)
(* Rounding up an address below the kernel gives the next page boundary,   *)
(* without wrapping around.                                                *)
(***************************************************************************)
LEMMA Up ==
    ASSUME NEW a \in Nat, a <= ElfKernel
    PROVE  \E u \in Nat : /\ E!roundup(a) = ElfPage * u
                          /\ a <= ElfPage * u /\ ElfPage * u < a + ElfPage
<1>1. PICK q \in Nat, k \in Nat : q = a \div ElfPage /\ k = a % ElfPage /\ k < ElfPage /\ a = ElfPage * q + k
    BY PageFacts, DivMod
<1>2. PICK x \in Nat : x = ElfPage * q
    BY PageFacts
<1>3. PICK sp \in Nat, kp \in Nat, wp \in Nat : SizesAre(sp, kp, wp)
    BY SizeFacts
<1>4. CASE k = 0
    <2>1. E!roundup(a) = a /\ a = x
        <3>1. a = x + k
            BY <1>1, <1>2
        <3>2. E!roundup(a) = a
            BY <1>1, <1>4 DEF E!roundup
        <3> QED BY <1>4, <3>1, <3>2
    <2>2. E!roundup(a) = x /\ a <= x /\ x < a + ElfPage
        BY <2>1, PageFacts
    <2> QED BY <1>2, <2>2
<1>5. CASE k # 0
    <2>1. x + ElfPage = ElfPage * (q + 1)
        BY <1>2, PageFacts, TimesAdd
    <2>2. PICK y \in Nat : y = ElfPage * kp /\ y = ElfKernel
        BY <1>3, PageFacts DEF SizesAre
    <2>3. x < y
        <3>1. a = x + k
            BY <1>1, <1>2
        <3> QED BY <1>5, <2>2, <3>1
    <2>4. q < kp
        BY <1>2, <2>2, <2>3, PageFacts, TimesOrder
    <2>5. q + 1 < wp
        BY <1>3, <2>4 DEF SizesAre
    <2>6. ElfPage * (q + 1) < ElfPage * wp
        BY <2>5, PageFacts, TimesOrder
    <2>7. x + ElfPage < Word /\ Word \in Nat
        BY <1>3, <2>1, <2>6, PageFacts DEF SizesAre
    <2>8. a + ElfPage - k = x + ElfPage
        BY <1>1, <1>2, PageFacts
    <2>9. (x + ElfPage) % Word = x + ElfPage
        BY <2>7, PageFacts
    <2>10. E!roundup(a) = x + ElfPage
        BY <1>1, <1>5, <2>8, <2>9 DEF E!roundup
    <2>11. a <= x + ElfPage /\ x + ElfPage < a + ElfPage
        BY <1>1, <1>2, <1>5, PageFacts
    <2>12. q + 1 \in Nat
        OBVIOUS
    <2> QED BY <2>1, <2>10, <2>11, <2>12
<1> QED BY <1>4, <1>5

-----------------------------------------------------------------------------
(***************************************************************************)
(* A segment: it starts o bytes into page v, its pages are v to t - 1, and *)
(* its size alone fills n of them.                                         *)
(***************************************************************************)
IsHeader(h) ==
    /\ h \in E!proghdr
    /\ h.va >= ElfPage /\ h.va + h.memsz <= ElfKernel - ElfStack
    /\ h.filesz <= h.memsz

SegIs(h, v, o, t, n) ==
    /\ h.va = ElfPage * v + o /\ o < ElfPage
    /\ v = h.va \div ElfPage /\ o = h.va % ElfPage
    /\ v <= t /\ n <= t - v /\ t - v <= n + 1
    /\ E!rounddown(h.va) = ElfPage * v
    /\ E!roundup((h.va + h.memsz) % Word) = ElfPage * t
    /\ h.va + h.memsz <= ElfPage * t /\ ElfPage * t < h.va + h.memsz + ElfPage
    /\ E!roundup(h.memsz) = ElfPage * n
    /\ E!PagesOf(h) = v..(t - 1)
    /\ E!roundup(h.memsz + o) = ElfPage * (t - v)
    /\ (o + h.memsz <= E!roundup(h.memsz) => n = t - v)

(***************************************************************************)
(* What a linker keeps to in a program header: segments begin behind the   *)
(* first page and end below the stack.                                     *)
(***************************************************************************)
LEMMA HeaderFields ==
    ASSUME NEW h, IsHeader(h)
    PROVE  /\ h.va \in Nat /\ h.memsz \in Nat /\ h.filesz \in Nat /\ h.off \in Nat
           /\ h.va >= ElfPage /\ h.filesz <= h.memsz
           /\ h.va + h.memsz <= ElfKernel - ElfStack
BY DEF IsHeader, E!proghdr

(***************************************************************************)
(* The LOAD headers of an image are headers a linker makes.                *)
(***************************************************************************)
LEMMA Headers ==
    ASSUME NEW f \in Execs
    PROVE  /\ Len(f.ph) \in Nat /\ DOMAIN f.ph = 1..Len(f.ph)
           /\ \A j \in E!Program(f) : IsHeader(f.ph[j])
<1>1. E!IsElf(f) /\ \A j \in E!Program(f) :
          LET h == f.ph[j]
          IN  /\ h.va >= ElfPage /\ h.va + h.memsz <= ElfKernel - ElfStack
              /\ h.filesz <= h.memsz
    BY LoaderAssumption DEF E!ElfAssumption
<1>2. f.ph \in Seq(E!proghdr)
    BY <1>1 DEF E!IsElf
<1>3. Len(f.ph) \in Nat /\ DOMAIN f.ph = 1..Len(f.ph) /\ \A j \in E!Program(f) : f.ph[j] \in E!proghdr
    BY <1>2 DEF E!Program
<1> QED BY <1>1, <1>3 DEF IsHeader

(***************************************************************************)
(* The pages that a segment covers and the place of its first byte in      *)
(* them.                                                                   *)
(***************************************************************************)
LEMMA Segment ==
    ASSUME NEW h, IsHeader(h)
    PROVE  \E v \in Nat, o \in Nat, t \in Nat, n \in Nat : SegIs(h, v, o, t, n)
<1>1. PICK a \in Nat, z \in Nat : a = h.va /\ z = h.memsz /\ a >= ElfPage /\ a + z <= ElfKernel - ElfStack
    BY HeaderFields
<1>2. PICK sp \in Nat, kp \in Nat, wp \in Nat : SizesAre(sp, kp, wp)
    BY SizeFacts
<1>3. ElfStack \in Nat /\ ElfKernel \in Nat /\ Word \in Nat /\ ElfKernel < Word
    BY LoaderAssumption DEF E!ElfAssumption
<1>4. PICK v \in Nat, o \in Nat : v = a \div ElfPage /\ o = a % ElfPage /\ o < ElfPage /\ a = ElfPage * v + o
    BY PageFacts, DivMod
<1>5. PICK x \in Nat : x = ElfPage * v
    BY PageFacts
<1>6. a = x + o
    BY <1>4, <1>5
<1>7. PICK t \in Nat : E!roundup(a + z) = ElfPage * t /\ a + z <= ElfPage * t /\ ElfPage * t < a + z + ElfPage
    <2>1. a + z \in Nat /\ a + z <= ElfKernel
        BY <1>1, <1>3
    <2> QED BY <2>1, Up
<1>8. PICK y \in Nat : y = ElfPage * t
    BY PageFacts
<1>9. a + z <= y /\ y < a + z + ElfPage
    BY <1>7, <1>8
<1>10. PICK n \in Nat : E!roundup(z) = ElfPage * n /\ z <= ElfPage * n /\ ElfPage * n < z + ElfPage
    <2>1. z <= ElfKernel
        BY <1>1, <1>3
    <2> QED BY <2>1, Up
<1>11. PICK w \in Nat : w = ElfPage * n
    BY PageFacts
<1>12. z <= w /\ w < z + ElfPage
    BY <1>10, <1>11
<1>13. v <= t
    <2>1. x <= y
        BY <1>6, <1>9
    <2> QED BY <1>5, <1>8, <2>1, PageFacts, TimesOrder
<1>14. PICK g \in Nat : g = t - v /\ ElfPage * g = y - x
    <2>1. ElfPage * (t - v) = y - x
        BY <1>5, <1>8, PageFacts, TimesAdd
    <2> QED BY <1>13, <2>1
<1>15. n <= g
    <2>1. w < (y - x) + ElfPage
        BY <1>6, <1>9, <1>12, PageFacts
    <2>2. (y - x) + ElfPage = ElfPage * (g + 1)
        <3>1. ElfPage * 1 = ElfPage
            BY PageFacts
        <3>2. ElfPage * (g + 1) = ElfPage * g + ElfPage * 1
            BY PageFacts, TimesAdd
        <3> QED BY <1>14, <3>1, <3>2
    <2>3. n < g + 1
        BY <1>11, <2>1, <2>2, PageFacts, TimesOrder
    <2> QED BY <2>3
<1>16. g <= n + 1
    <2>1. ElfPage * (n + 2) = w + ElfPage * 2
        BY <1>11, PageFacts, TimesAdd
    <2>2. ElfPage * 2 = ElfPage + ElfPage
        BY PageFacts
    <2>3. y - x < w + (ElfPage + ElfPage)
        BY <1>4, <1>6, <1>9, <1>12, PageFacts
    <2>4. ElfPage * g < ElfPage * (n + 2)
        BY <1>14, <2>1, <2>2, <2>3
    <2>5. g < n + 2
        BY <2>4, PageFacts, TimesOrder
    <2> QED BY <2>5
<1>17. E!rounddown(a) = ElfPage * v
    BY <1>4, Down
<1>18. (a + z) % Word = a + z
    <2>1. a + z < Word /\ a + z \in Nat
        BY <1>1, <1>3
    <2> QED BY <1>3, <2>1
<1>19. (a + z - 1) \div ElfPage = t - 1
    <2>1. t # 0
        <3>1. y # 0
            BY <1>1, <1>9, PageFacts
        <3> QED BY <1>8, <3>1, PageFacts
    <2>2. ElfPage * (t - 1) = y - ElfPage
        <3>1. ElfPage * 1 = ElfPage
            BY PageFacts
        <3>2. ElfPage * (t - 1) = ElfPage * t - ElfPage * 1
            BY PageFacts, TimesAdd
        <3> QED BY <1>8, <3>1, <3>2
    <2>3. PICK b \in Nat : a + z - 1 = (y - ElfPage) + b /\ b < ElfPage
        <3>1. (a + z - 1) - (y - ElfPage) \in Nat /\ (a + z - 1) - (y - ElfPage) < ElfPage
            BY <1>9, PageFacts
        <3>2. PICK b \in Nat : b = (a + z - 1) - (y - ElfPage)
            BY <3>1
        <3>3. a + z - 1 = (y - ElfPage) + b /\ b < ElfPage
            BY <3>1, <3>2, PageFacts
        <3> QED BY <3>3
    <2>4. t - 1 \in Nat /\ a + z - 1 = ElfPage * (t - 1) + b
        BY <2>1, <2>2, <2>3
    <2> QED BY <2>3, <2>4, PageFacts, DivModUnique
<1>20. E!PagesOf(h) = v..(t - 1)
    BY <1>1, <1>4, <1>19 DEF E!PagesOf
<1>21. E!roundup(z + o) = ElfPage * g
    <2>1. z + o \in Nat /\ z + o <= ElfKernel
        BY <1>1, <1>3, <1>6
    <2>2. PICK e \in Nat : E!roundup(z + o) = ElfPage * e /\ z + o <= ElfPage * e /\ ElfPage * e < z + o + ElfPage
        BY <2>1, Up
    <2>3. PICK c \in Nat : c = ElfPage * e
        BY PageFacts
    <2>4. c = ElfPage * e /\ z + o <= c /\ c < z + o + ElfPage
        BY <2>2, <2>3
    <2>5. z + o <= y - x /\ y - x < z + o + ElfPage
        BY <1>6, <1>9, PageFacts
    <2>6. c < (y - x) + ElfPage /\ y - x < c + ElfPage
        BY <2>4, <2>5, PageFacts
    <2>7. e = g
        <3>1. ElfPage * 1 = ElfPage
            BY PageFacts
        <3>2. ElfPage * (g + 1) = ElfPage * g + ElfPage * 1 /\ ElfPage * (e + 1) = ElfPage * e + ElfPage * 1
            BY PageFacts, TimesAdd
        <3>3. ElfPage * e < ElfPage * (g + 1) /\ ElfPage * g < ElfPage * (e + 1)
            BY <1>14, <2>4, <2>6, <3>1, <3>2
        <3>4. e < g + 1 /\ g < e + 1
            BY <3>3, PageFacts, TimesOrder
        <3> QED BY <3>4
    <2> QED BY <2>2, <2>7
<1>22. ASSUME o + z <= w PROVE n = g
    <2>1. y - x < w + ElfPage
        BY <1>6, <1>9, <1>22, PageFacts
    <2>2. ElfPage * (n + 1) = w + ElfPage
        <3>1. ElfPage * 1 = ElfPage
            BY PageFacts
        <3>2. ElfPage * (n + 1) = ElfPage * n + ElfPage * 1
            BY PageFacts, TimesAdd
        <3> QED BY <1>11, <3>1, <3>2
    <2>3. g < n + 1
        <3>1. ElfPage * g < ElfPage * (n + 1)
            BY <1>14, <2>1, <2>2
        <3> QED BY <3>1, PageFacts, TimesOrder
    <2> QED BY <1>15, <2>3
<1>23. SegIs(h, v, o, t, n)
    <2>1. h.va = ElfPage * v + o /\ o < ElfPage /\ v = h.va \div ElfPage /\ o = h.va % ElfPage
        BY <1>1, <1>4
    <2>2. v <= t /\ n <= t - v /\ t - v <= n + 1
        BY <1>13, <1>14, <1>15, <1>16
    <2>3. E!rounddown(h.va) = ElfPage * v /\ E!roundup((h.va + h.memsz) % Word) = ElfPage * t
        BY <1>1, <1>7, <1>17, <1>18
    <2>4. /\ h.va + h.memsz <= ElfPage * t /\ ElfPage * t < h.va + h.memsz + ElfPage
          /\ E!roundup(h.memsz) = ElfPage * n
        BY <1>1, <1>7, <1>10
    <2>5. E!roundup(h.memsz + o) = ElfPage * (t - v)
        BY <1>1, <1>14, <1>21
    <2>6. o + h.memsz <= E!roundup(h.memsz) => n = t - v
        BY <1>1, <1>10, <1>11, <1>14, <1>22
    <2> QED BY <1>20, <2>1, <2>2, <2>3, <2>4, <2>5, <2>6 DEF SegIs
<1> QED BY <1>23
-----------------------------------------------------------------------------
(***************************************************************************)
(* Directories and region lists.                                           *)
(***************************************************************************)
LEMMA FirstOf ==
    ASSUME NEW U \in SUBSET Nat, U # {}
    PROVE  E!Min(U) \in U /\ \A y \in U : E!Min(U) <= y
<1>1. \E x \in U : \A y \in U : x <= y
    BY NatMin
<1> QED BY <1>1 DEF E!Min

(***************************************************************************)
(* The region of c pages from page v on, in the frames from a on.          *)
(***************************************************************************)
RegionIs(r, v, a, c) ==
    /\ r.va \in Nat /\ r.va \div ElfPage = v
    /\ r.pa = ElfPage * a /\ r.len = ElfPage * c

Entered(d, v, a, c) ==
    [q \in DOMAIN d \cup v..(v + c - 1) |-> IF q \in v..(v + c - 1) THEN a + q - v ELSE d[q]]

(***************************************************************************)
(* alloc_pt enters the pages of a region, and RegionPages names them.      *)
(***************************************************************************)
LEMMA PagesEntered ==
    ASSUME NEW r, NEW v \in Nat, NEW a \in Nat, NEW c \in Nat, RegionIs(r, v, a, c)
    PROVE  /\ \A d : E!alloc_pt(d, r.va, r.pa, r.len) = Entered(d, v, a, c)
           /\ E!RegionPages(r) = v..(v + c - 1) /\ r.pa \div ElfPage = a
<1>1. r.va \in Nat /\ r.va \div ElfPage = v /\ r.pa = ElfPage * a /\ r.len = ElfPage * c
    BY DEF RegionIs
<1>2. E!rounddown(r.va) \div ElfPage = v
    <2>1. E!rounddown(r.va) = ElfPage * v
        BY <1>1, Down
    <2> QED BY <2>1, UpExact
<1>3. E!roundup(r.len) \div ElfPage = c /\ r.len \div ElfPage = c
    <2>1. E!roundup(ElfPage * c) = ElfPage * c /\ (ElfPage * c) \div ElfPage = c
        BY UpExact
    <2> QED BY <1>1, <2>1
<1>4. E!rounddown(r.pa) \div ElfPage = a /\ r.pa \div ElfPage = a
    <2>1. E!rounddown(ElfPage * a) = ElfPage * a /\ (ElfPage * a) \div ElfPage = a
        BY UpExact
    <2> QED BY <1>1, <2>1
<1>5. ASSUME NEW d PROVE E!alloc_pt(d, r.va, r.pa, r.len) = Entered(d, v, a, c)
    BY <1>2, <1>3, <1>4 DEF E!alloc_pt, Entered
<1>6. E!RegionPages(r) = v..(v + c - 1)
    BY <1>1, <1>3 DEF E!RegionPages
<1> QED BY <1>4, <1>5, <1>6

Describes(d, list) ==
    /\ DOMAIN d = UNION {E!RegionPages(list[j]) : j \in DOMAIN list}
    /\ \A q \in DOMAIN d :
          LET j == E!Min({l \in DOMAIN list : q \in E!RegionPages(list[l])})
          IN  d[q] = list[j].pa \div ElfPage + q - list[j].va \div ElfPage

(***************************************************************************)
(* Putting a region in front of the list.                                  *)
(***************************************************************************)
LEMMA NewestFirst ==
    ASSUME NEW Rgns, NEW list \in Seq(Rgns), NEW r \in Rgns
    PROVE  /\ <<r>> \o list \in Seq(Rgns) /\ DOMAIN (<<r>> \o list) = 1..(Len(list) + 1)
           /\ (<<r>> \o list)[1] = r /\ \A j \in 1..Len(list) : (<<r>> \o list)[j + 1] = list[j]
           /\ \A j \in 2..(Len(list) + 1) : j - 1 \in 1..Len(list) /\ (<<r>> \o list)[j] = list[j - 1]
<1>1. PICK s : s = <<r>> \o list
    OBVIOUS
<1>2. s \in Seq(Rgns) /\ Len(s) = Len(list) + 1 /\ DOMAIN s = 1..(Len(list) + 1)
    BY <1>1
<1>3. s[1] = r
    BY <1>1
<1>4. \A j \in 1..Len(list) : s[j + 1] = list[j]
    BY <1>1
<1>5. \A j \in 2..(Len(list) + 1) : j - 1 \in 1..Len(list) /\ (j - 1) + 1 = j
    OBVIOUS
<1> QED BY <1>1, <1>2, <1>3, <1>4, <1>5

(***************************************************************************)
(* Entering a region's pages in the directory and the region in the list   *)
(* keeps them alike.                                                       *)
(***************************************************************************)
LEMMA DescribesMore ==
    ASSUME NEW Rgns, NEW list \in Seq(Rgns), NEW d, Describes(d, list),
           NEW r \in Rgns, NEW v \in Nat, NEW a \in Nat, NEW c \in Nat, RegionIs(r, v, a, c)
    PROVE  Describes(Entered(d, v, a, c), <<r>> \o list)
<1>1. PICK s : s = <<r>> \o list
    OBVIOUS
<1>2. /\ s \in Seq(Rgns) /\ DOMAIN s = 1..(Len(list) + 1)
      /\ s[1] = r /\ \A j \in 1..Len(list) : s[j + 1] = list[j]
      /\ \A j \in 2..(Len(list) + 1) : j - 1 \in 1..Len(list) /\ s[j] = list[j - 1]
    BY <1>1, NewestFirst
<1>3. Len(list) \in Nat /\ DOMAIN list = 1..Len(list)
    OBVIOUS
<1>4. PICK x : x = Entered(d, v, a, c)
    OBVIOUS
<1>5. /\ DOMAIN x = DOMAIN d \cup v..(v + c - 1)
      /\ \A q \in DOMAIN x : x[q] = IF q \in v..(v + c - 1) THEN a + q - v ELSE d[q]
    BY <1>4 DEF Entered
<1>6. E!RegionPages(r) = v..(v + c - 1) /\ r.pa \div ElfPage = a /\ r.va \div ElfPage = v
    BY PagesEntered DEF RegionIs
<1>7. DOMAIN d = UNION {E!RegionPages(list[j]) : j \in DOMAIN list}
    BY DEF Describes
<1>8. DOMAIN x = UNION {E!RegionPages(s[j]) : j \in DOMAIN s}
    <2>1. ASSUME NEW q \in DOMAIN x PROVE \E j \in DOMAIN s : q \in E!RegionPages(s[j])
        <3>1. CASE q \in v..(v + c - 1)
            <4>1. 1 \in DOMAIN s
                BY <1>2, <1>3
            <4> QED BY <1>2, <1>6, <3>1, <4>1
        <3>2. CASE q \in DOMAIN d
            <4>1. PICK j \in DOMAIN list : q \in E!RegionPages(list[j])
                BY <1>7, <3>2
            <4>2. j + 1 \in DOMAIN s /\ s[j + 1] = list[j]
                BY <1>2, <1>3
            <4> QED BY <4>1, <4>2
        <3> QED BY <1>5, <3>1, <3>2
    <2>2. ASSUME NEW j \in DOMAIN s, NEW q \in E!RegionPages(s[j]) PROVE q \in DOMAIN x
        <3>1. CASE j = 1
            BY <1>2, <1>5, <1>6, <3>1
        <3>2. CASE j # 1
            <4>1. j \in 2..(Len(list) + 1)
                BY <1>2, <1>3, <3>2
            <4>2. j - 1 \in DOMAIN list /\ q \in E!RegionPages(list[j - 1])
                BY <1>2, <1>3, <4>1
            <4> QED BY <1>5, <1>7, <4>2
        <3> QED BY <3>1, <3>2
    <2> QED BY <2>1, <2>2
<1>9. ASSUME NEW q \in DOMAIN x, NEW k, k = E!Min({l \in DOMAIN s : q \in E!RegionPages(s[l])})
      PROVE  x[q] = s[k].pa \div ElfPage + q - s[k].va \div ElfPage
    <2> DEFINE New == {l \in DOMAIN s : q \in E!RegionPages(s[l])}
               Old == {l \in DOMAIN list : q \in E!RegionPages(list[l])}
    <2>1. New \in SUBSET Nat /\ Old \in SUBSET Nat
        BY <1>2, <1>3
    <2>2. New # {}
        BY <1>8
    <2>3. k \in New /\ \A y \in New : k <= y
        <3> HIDE DEF New
        <3>1. E!Min(New) \in New /\ \A y \in New : E!Min(New) <= y
            BY <2>1, <2>2, FirstOf
        <3>2. k = E!Min(New)
            BY <1>9 DEF New
        <3> QED BY <3>1, <3>2
    <2>4. k \in 1..(Len(list) + 1) /\ q \in E!RegionPages(s[k])
        BY <1>2, <2>3
    <2>5. CASE q \in v..(v + c - 1)
        <3>1. 1 \in New
            <4>1. 1 \in DOMAIN s
                BY <1>2, <1>3
            <4> QED BY <1>2, <1>6, <2>5, <4>1
        <3>2. k = 1
            BY <1>3, <2>3, <2>4, <3>1
        <3>3. x[q] = a + q - v
            BY <1>5, <2>5
        <3> QED BY <1>2, <1>6, <3>2, <3>3
    <2>6. CASE q \notin v..(v + c - 1)
        <3>1. q \in DOMAIN d /\ x[q] = d[q]
            BY <1>5, <2>6
        <3>2. PICK i : i = E!Min(Old)
            OBVIOUS
        <3>3. d[q] = list[i].pa \div ElfPage + q - list[i].va \div ElfPage
            BY <3>1, <3>2 DEF Describes
        <3>4. Old # {}
            BY <1>7, <3>1
        <3>5. i \in Old /\ \A y \in Old : i <= y
            <4> HIDE DEF Old
            <4> QED BY <2>1, <3>2, <3>4, FirstOf
        <3>6. i \in 1..Len(list) /\ s[i + 1] = list[i] /\ q \in E!RegionPages(list[i])
            BY <1>2, <1>3, <3>5
        <3>7. i + 1 \in New
            BY <1>2, <1>3, <3>6
        <3>8. k <= i + 1
            BY <2>3, <3>7
        <3>9. k # 1
            BY <1>2, <1>6, <2>4, <2>6
        <3>10. k - 1 \in Old
            <4>1. k \in 2..(Len(list) + 1)
                BY <1>3, <2>4, <3>9
            <4> QED BY <1>2, <1>3, <2>4, <4>1
        <3>11. i <= k - 1
            BY <3>5, <3>10
        <3>12. k = i + 1
            BY <1>3, <2>4, <3>6, <3>8, <3>11
        <3>13. s[k] = list[i]
            BY <3>6, <3>12
        <3> QED BY <3>1, <3>3, <3>13
    <2> QED BY <2>5, <2>6
<1>10. Describes(x, s)
    BY <1>8, <1>9 DEF Describes
<1> QED BY <1>1, <1>4, <1>10
-----------------------------------------------------------------------------
(***************************************************************************)
(* The first pass: after the headers below i, min and max are the ends of  *)
(* the segments among them, or what they were set to.                      *)
(***************************************************************************)
Bounds(f, i, min, max, u, w) ==
    /\ u <= w /\ ElfPage * w <= ElfKernel - ElfStack
    /\ min = ElfPage * u /\ max = ElfPage * w
    /\ \A j \in E!Program(f) : j < i => /\ ElfPage * u <= f.ph[j].va
                                        /\ f.ph[j].va + f.ph[j].memsz <= ElfPage * w

Found(f, i, min, max) ==
    \/ min = Word - 1 /\ max = 0 /\ \A j \in E!Program(f) : ~(j < i)
    \/ \E u \in Nat, w \in Nat : Bounds(f, i, min, max, u, w)

(***************************************************************************)
(* A header that is not loaded leaves the bounds the scan found.           *)
(***************************************************************************)
LEMMA FoundNext ==
    ASSUME NEW f \in Execs, NEW i \in DOMAIN f.ph, NEW min, NEW max, Found(f, i, min, max),
           f.ph[i].type # E!PT_LOAD
    PROVE  Found(f, i + 1, min, max)
<1>1. \A j \in E!Program(f) : j \in DOMAIN f.ph /\ f.ph[j].type = E!PT_LOAD
    BY DEF E!Program
<1>2. \A j \in E!Program(f) : j \in Nat /\ j # i
    BY <1>1, Headers
<1>3. i \in Nat
    BY Headers
<1>4. \A j \in E!Program(f) : j < i + 1 => j < i
    BY <1>2, <1>3
<1>5. CASE min = Word - 1 /\ max = 0 /\ \A j \in E!Program(f) : ~(j < i)
    BY <1>4, <1>5 DEF Found
<1>6. CASE \E u \in Nat, w \in Nat : Bounds(f, i, min, max, u, w)
    <2>1. PICK u \in Nat, w \in Nat : Bounds(f, i, min, max, u, w)
        BY <1>6
    <2>2. Bounds(f, i + 1, min, max, u, w)
        BY <1>4, <2>1 DEF Bounds
    <2> QED BY <2>2 DEF Found
<1> QED BY <1>5, <1>6 DEF Found

(***************************************************************************)
(* A header that is loaded widens the bounds to hold its pages.            *)
(***************************************************************************)
LEMMA FoundMore ==
    ASSUME NEW f \in Execs, NEW i \in DOMAIN f.ph, NEW min, NEW max, Found(f, i, min, max),
           f.ph[i].type = E!PT_LOAD, NEW start, NEW end,
           start = E!rounddown(f.ph[i].va),
           end = E!roundup((f.ph[i].va + f.ph[i].memsz) % Word)
    PROVE  Found(f, i + 1, IF start < min THEN start ELSE min, E!Higher(max, end))
<1>1. \A j \in E!Program(f) : j \in Nat /\ j \in DOMAIN f.ph /\ IsHeader(f.ph[j])
    BY Headers DEF E!Program
<1>2. i \in Nat /\ IsHeader(f.ph[i])
    BY Headers DEF E!Program
<1>3. \A j \in E!Program(f) : j < i + 1 => j < i \/ j = i
    BY <1>1, <1>2
<1>4. PICK h : h = f.ph[i] /\ IsHeader(h)
    BY <1>2
<1>5. PICK v \in Nat, o \in Nat, t \in Nat, n \in Nat : SegIs(h, v, o, t, n)
    BY <1>4, Segment
<1>6. PICK a \in Nat, z \in Nat : a = h.va /\ z = h.memsz /\ a + z <= ElfKernel - ElfStack
    BY <1>4, HeaderFields
<1>7. PICK x \in Nat, y \in Nat : x = ElfPage * v /\ y = ElfPage * t
    BY PageFacts
<1>8. start = x /\ end = y /\ x <= a /\ a + z <= y /\ y < a + z + ElfPage /\ v <= t
    <2>1. /\ h.va = ElfPage * v + o /\ v <= t
          /\ E!rounddown(h.va) = ElfPage * v /\ E!roundup((h.va + h.memsz) % Word) = ElfPage * t
          /\ h.va + h.memsz <= ElfPage * t /\ ElfPage * t < h.va + h.memsz + ElfPage
        BY <1>5 DEF SegIs
    <2>2. start = x /\ end = y
        BY <1>4, <1>7, <2>1
    <2>3. a = x + o /\ a + z <= y /\ y < a + z + ElfPage
        BY <1>6, <1>7, <2>1
    <2> QED BY <2>1, <2>2, <2>3
<1>9. PICK sp \in Nat, kp \in Nat, wp \in Nat : SizesAre(sp, kp, wp)
    BY SizeFacts
<1>10. PICK ss \in Nat, kk \in Nat, ww \in Nat :
          /\ ss = ElfStack /\ kk = ElfKernel /\ ww = Word
          /\ ss = ElfPage * sp /\ kk = ElfPage * kp /\ ww = ElfPage * wp
          /\ 0 < sp /\ sp < kp /\ kp < wp
    BY <1>9, PageFacts DEF SizesAre
<1>11. y <= kk - ss
    <2>1. ElfPage * (kp - sp) = kk - ss
        BY <1>10, PageFacts, TimesAdd
    <2>2. ElfPage * 1 = ElfPage
        BY PageFacts
    <2>3. ElfPage * ((kp - sp) + 1) = ElfPage * (kp - sp) + ElfPage * 1
        BY PageFacts, TimesAdd
    <2>4. ElfPage * t < ElfPage * ((kp - sp) + 1)
        BY <1>6, <1>7, <1>8, <1>10, <2>1, <2>2, <2>3, PageFacts
    <2>5. t < (kp - sp) + 1
        BY <2>4, PageFacts, TimesOrder
    <2>6. t <= kp - sp
        BY <2>5
    <2>7. ElfPage * t <= ElfPage * (kp - sp)
        BY <2>6, PageFacts, TimesOrder
    <2> QED BY <1>7, <2>1, <2>7
<1>12. CASE min = Word - 1 /\ max = 0 /\ \A j \in E!Program(f) : ~(j < i)
    <2>1. x < ww - 1
        <3>1. x <= y
            BY <1>7, <1>8, PageFacts, TimesOrder
        <3>2. kk < ww /\ ss > 0
            <4>1. kk < ww
                BY <1>10, PageFacts, TimesOrder
            <4>2. ss > 0
                BY <1>10, LoaderAssumption DEF E!ElfAssumption
            <4> QED BY <4>1, <4>2
        <3> QED BY <1>11, <3>1, <3>2
    <2>2. (IF start < min THEN start ELSE min) = x
        BY <1>8, <1>10, <1>12, <2>1
    <2>3. E!Higher(max, end) = y
        BY <1>8, <1>12 DEF E!Higher
    <2>4. Bounds(f, i + 1, x, y, v, t)
        BY <1>3, <1>4, <1>6, <1>7, <1>8, <1>10, <1>11, <1>12 DEF Bounds
    <2> QED BY <2>2, <2>3, <2>4 DEF Found
<1>13. CASE \E u \in Nat, w \in Nat : Bounds(f, i, min, max, u, w)
    <2>1. PICK u \in Nat, w \in Nat : Bounds(f, i, min, max, u, w)
        BY <1>13
    <2>2. PICK p \in Nat, q \in Nat : p = ElfPage * u /\ q = ElfPage * w
        BY PageFacts
    <2>3. /\ u <= w /\ q <= kk - ss /\ min = p /\ max = q
          /\ \A j \in E!Program(f) : j < i => p <= f.ph[j].va /\ f.ph[j].va + f.ph[j].memsz <= q
        BY <1>10, <2>1, <2>2 DEF Bounds
    <2>4. PICK u1 \in Nat : /\ (IF start < min THEN start ELSE min) = ElfPage * u1
                            /\ u1 <= u /\ u1 <= v /\ ElfPage * u1 <= p /\ ElfPage * u1 <= x
        <3>1. CASE x < p
            <4>1. v < u
                BY <1>7, <2>2, <3>1, PageFacts, TimesOrder
            <4> QED BY <1>7, <1>8, <2>3, <3>1, <4>1
        <3>2. CASE ~(x < p)
            <4>1. u <= v
                BY <1>7, <2>2, <3>2, PageFacts, TimesOrder
            <4> QED BY <1>8, <2>2, <2>3, <3>2, <4>1
        <3> QED BY <3>1, <3>2
    <2>5. PICK w1 \in Nat : /\ E!Higher(max, end) = ElfPage * w1 /\ ElfPage * w1 <= kk - ss
                            /\ w <= w1 /\ q <= ElfPage * w1 /\ y <= ElfPage * w1
        <3>1. CASE y > q
            <4>1. w < t
                BY <1>7, <2>2, <3>1, PageFacts, TimesOrder
            <4>2. E!Higher(max, end) = y
                BY <1>8, <2>3, <3>1 DEF E!Higher
            <4> QED BY <1>7, <1>11, <3>1, <4>1, <4>2
        <3>2. CASE ~(y > q)
            <4>1. E!Higher(max, end) = q
                BY <1>8, <2>3, <3>2 DEF E!Higher
            <4> QED BY <2>2, <2>3, <3>2, <4>1
        <3> QED BY <3>1, <3>2
    <2>6. PICK p1 \in Nat, q1 \in Nat : p1 = ElfPage * u1 /\ q1 = ElfPage * w1
        BY PageFacts
    <2>7. ASSUME NEW j \in E!Program(f), j < i + 1
          PROVE  p1 <= f.ph[j].va /\ f.ph[j].va + f.ph[j].memsz <= q1
        <3>1. PICK aj \in Nat, zj \in Nat : aj = f.ph[j].va /\ zj = f.ph[j].memsz
            BY <1>1, HeaderFields
        <3>2. CASE j < i
            <4>1. p <= aj /\ aj + zj <= q
                BY <2>3, <3>1, <3>2
            <4>2. p1 <= p /\ q <= q1
                BY <2>4, <2>5, <2>6
            <4> QED BY <3>1, <4>1, <4>2
        <3>3. CASE j = i
            <4>1. aj = a /\ zj = z
                BY <1>4, <1>6, <3>1, <3>3
            <4>2. p1 <= x /\ y <= q1
                BY <2>4, <2>5, <2>6
            <4> QED BY <1>8, <3>1, <4>1, <4>2
        <3> QED BY <1>3, <2>7, <3>2, <3>3
    <2>8. u1 <= w1
        BY <2>3, <2>4, <2>5
    <2>9. Bounds(f, i + 1, p1, q1, u1, w1)
        BY <1>10, <2>5, <2>6, <2>7, <2>8 DEF Bounds
    <2> QED BY <2>4, <2>5, <2>6, <2>9 DEF Found
<1> QED BY <1>12, <1>13 DEF Found

-----------------------------------------------------------------------------
(***************************************************************************)
(* The pages of the segments below i, and how many there are.              *)
(***************************************************************************)
Taken(f, i) == UNION {E!PagesOf(f.ph[j]) : j \in {k \in E!Program(f) : k < i}}

(***************************************************************************)
(* The pages that the segments before the ith take.                        *)
(***************************************************************************)
LEMMA InTaken ==
    ASSUME NEW f, NEW i, NEW q
    PROVE  q \in Taken(f, i) <=> \E j \in E!Program(f) : j < i /\ q \in E!PagesOf(f.ph[j])
BY DEF Taken

(***************************************************************************)
(* A segment takes its own pages, which no segment before it has.          *)
(***************************************************************************)
LEMMA TakenMore ==
    ASSUME NEW f \in Execs, NEW i \in DOMAIN f.ph
    PROVE  /\ i \notin E!Program(f) => Taken(f, i + 1) = Taken(f, i)
           /\ i \in E!Program(f) => Taken(f, i + 1) = Taken(f, i) \cup E!PagesOf(f.ph[i])
           /\ i \in E!Program(f) /\ E!PageDisjoint(f) => Taken(f, i) \cap E!PagesOf(f.ph[i]) = {}
<1>1. i \in Nat /\ \A j \in E!Program(f) : j \in Nat
    BY Headers DEF E!Program
<1>2. \A j \in E!Program(f) : j < i + 1 <=> j < i \/ j = i
    BY <1>1
<1>3. \A j \in E!Program(f) : j < i => j # i
    BY <1>1
<1>4. ASSUME i \notin E!Program(f) PROVE Taken(f, i + 1) = Taken(f, i)
    <2>1. \A j \in E!Program(f) : j < i + 1 <=> j < i
        BY <1>2, <1>4
    <2>2. \A q : q \in Taken(f, i + 1) <=> q \in Taken(f, i)
        BY <2>1, InTaken
    <2> QED BY <2>2 DEF Taken
<1>5. ASSUME i \in E!Program(f) PROVE Taken(f, i + 1) = Taken(f, i) \cup E!PagesOf(f.ph[i])
    <2>1. \A q : q \in Taken(f, i + 1) <=> q \in Taken(f, i) \/ q \in E!PagesOf(f.ph[i])
        BY <1>2, <1>5, InTaken
    <2> QED BY <2>1
<1>6. ASSUME i \in E!Program(f), E!PageDisjoint(f), NEW q \in Taken(f, i), q \in E!PagesOf(f.ph[i]) PROVE FALSE
    <2>1. PICK j \in E!Program(f) : j < i /\ q \in E!PagesOf(f.ph[j])
        BY <1>6, InTaken
    <2>2. E!PagesOf(f.ph[j]) \cap E!PagesOf(f.ph[i]) = {}
        BY <1>3, <1>6, <2>1 DEF E!PageDisjoint
    <2> QED BY <1>6, <2>1, <2>2
<1> QED BY <1>4, <1>5, <1>6

(***************************************************************************)
(* The memory for an image whose segments are all scanned: what its pages  *)
(* and the stack need, in pages.                                           *)
(***************************************************************************)
Holds(f, z) ==
    /\ IsFiniteSet(Taken(f, Len(f.ph) + 1))
    /\ \A sp \in Nat : ElfStack = ElfPage * sp => Cardinality(Taken(f, Len(f.ph) + 1)) + sp <= z

(***************************************************************************)
(* The segments loaded so far and the stack have room in the pages that    *)
(* were allocated: their pages are distinct and lie between the bounds.    *)
(***************************************************************************)
LEMMA TakenHeld ==
    ASSUME NEW f \in Execs, NEW z \in Nat, Holds(f, z), NEW i \in 1..(Len(f.ph) + 1),
           NEW sp \in Nat, ElfStack = ElfPage * sp
    PROVE  /\ IsFiniteSet(Taken(f, i)) /\ Cardinality(Taken(f, i)) \in Nat
           /\ Cardinality(Taken(f, i)) + sp <= z
<1>1. Len(f.ph) \in Nat /\ \A j \in E!Program(f) : j \in 1..Len(f.ph)
    BY Headers DEF E!Program
<1>2. PICK A : A = Taken(f, Len(f.ph) + 1)
    OBVIOUS
<1>3. PICK B : B = Taken(f, i)
    OBVIOUS
<1>4. B \in SUBSET A
    <2>1. \A j \in E!Program(f) : j < Len(f.ph) + 1
        BY <1>1
    <2> QED BY <1>2, <1>3, <2>1, InTaken
<1>5. IsFiniteSet(A) /\ Cardinality(A) + sp <= z
    BY <1>2 DEF Holds
<1>6. IsFiniteSet(B) /\ Cardinality(B) <= Cardinality(A)
    BY <1>4, <1>5, FS_Subset
<1>7. Cardinality(A) \in Nat /\ Cardinality(B) \in Nat
    BY <1>5, <1>6, FS_CardinalityType
<1> QED BY <1>3, <1>5, <1>6, <1>7

(***************************************************************************)
(* What loadelf allocates holds the pages of all segments and of the       *)
(* stack.                                                                  *)
(***************************************************************************)
LEMMA SizeHolds ==
    ASSUME NEW f \in Execs, NEW l, Found(f, Len(f.ph) + 1, l.min, l.max)
    PROVE  \E z \in Nat : /\ E!Size(l) = ElfPage * z /\ Holds(f, z)
                          /\ \A j \in E!Program(f) : f.ph[j].va + f.ph[j].memsz <= l.max
<1>1. Len(f.ph) \in Nat /\ \A j \in E!Program(f) : j \in 1..Len(f.ph) /\ IsHeader(f.ph[j])
    BY Headers DEF E!Program
<1>2. \A j \in E!Program(f) : j < Len(f.ph) + 1
    BY <1>1
<1>3. PICK sp \in Nat, kp \in Nat, wp \in Nat : SizesAre(sp, kp, wp)
    BY SizeFacts
<1>4. PICK ss \in Nat, kk \in Nat, ww \in Nat :
          /\ ss = ElfStack /\ kk = ElfKernel /\ ww = Word
          /\ ss = ElfPage * sp /\ kk = ElfPage * kp /\ ww = ElfPage * wp
          /\ 0 < sp /\ sp < kp /\ kp < wp
    BY <1>3, PageFacts DEF SizesAre
<1>5. ss < kk /\ kk < ww
    BY <1>4, PageFacts, TimesOrder
<1>6. \A x \in Nat : ElfStack = ElfPage * x => x = sp
    <2>1. ASSUME NEW x \in Nat, ElfPage * x = ElfPage * sp PROVE x = sp
        BY <2>1, PageFacts, TimesOrder
    <2> QED BY <1>4, <2>1
<1>7. PICK A : A = Taken(f, Len(f.ph) + 1)
    OBVIOUS
<1>8. CASE l.min = Word - 1 /\ l.max = 0 /\ \A j \in E!Program(f) : ~(j < Len(f.ph) + 1)
    <2>1. A = {}
        BY <1>7, <1>8, InTaken
    <2>2. (l.max - l.min + ElfStack) % Word = ss + 1
        <3>1. l.max - l.min + ElfStack = (ss + 1) - ww
            <4>0. Word = ww
                BY <1>4
            <4>1. l.max = 0 /\ l.min = ww - 1
                BY <1>8, <4>0
            <4>3. PICK a \in Int, b \in Int : a = l.max /\ b = l.min /\ a = 0 /\ b = ww - 1
                BY <4>1
            <4>2. a - b + ss = (ss + 1) - ww
                BY <4>3
            <4> QED BY <1>4, <4>2, <4>3
        <3>2. ww \in Nat \ {0} /\ (ss + 1) - ww \in Int /\ -ww < (ss + 1) - ww /\ (ss + 1) - ww < ww
            BY <1>5
        <3>3. (ss + 1) - ww < 0
            BY <1>5
        <3>4. ((ss + 1) - ww) % ww = ((ss + 1) - ww) + ww
            BY <3>2, <3>3, Wraps
        <3> QED BY <1>4, <3>1, <3>4
    <2>3. PICK z \in Nat : E!roundup(ss + 1) = ElfPage * z /\ ss + 1 <= ElfPage * z
        <3>1. ss + 1 \in Nat /\ ss + 1 <= ElfKernel
            BY <1>4, <1>5
        <3> QED BY <3>1, Up
    <2>4. sp <= z
        <3>1. ElfPage * sp <= ElfPage * z
            <4>1. PICK y \in Nat : y = ElfPage * z
                BY PageFacts
            <4> QED BY <1>4, <2>3, <4>1
        <3> QED BY <3>1, PageFacts, TimesOrder
    <2>5. Holds(f, z)
        <3>1. IsFiniteSet(A) /\ Cardinality(A) = 0
            BY <2>1, FS_EmptySet
        <3> QED BY <1>6, <1>7, <2>4, <3>1 DEF Holds
    <2>6. E!Size(l) = ElfPage * z
        BY <2>2, <2>3 DEF E!Size
    <2> QED BY <1>2, <1>8, <2>5, <2>6
<1>9. CASE \E u \in Nat, w \in Nat : Bounds(f, Len(f.ph) + 1, l.min, l.max, u, w)
    <2>1. PICK u \in Nat, w \in Nat : Bounds(f, Len(f.ph) + 1, l.min, l.max, u, w)
        BY <1>9
    <2>2. PICK p \in Nat, q \in Nat : p = ElfPage * u /\ q = ElfPage * w
        BY PageFacts
    <2>3. /\ u <= w /\ q <= kk - ss /\ l.min = p /\ l.max = q
          /\ \A j \in E!Program(f) : p <= f.ph[j].va /\ f.ph[j].va + f.ph[j].memsz <= q
        BY <1>2, <1>4, <2>1, <2>2 DEF Bounds
    <2>4. PICK z \in Nat : z = (w - u) + sp
        BY <2>3
    <2>5. ElfPage * z = (q - p) + ss
        <3>1. ElfPage * ((w - u) + sp) = ElfPage * (w - u) + ElfPage * sp
            BY PageFacts, TimesAdd
        <3>2. ElfPage * (w - u) = ElfPage * w - ElfPage * u
            BY PageFacts, TimesAdd
        <3> QED BY <1>4, <2>2, <2>4, <3>1, <3>2
    <2>6. E!Size(l) = ElfPage * z
        <3>1. (q - p) + ss \in Nat /\ (q - p) + ss < ww
            <4>1. p <= q
                BY <2>2, <2>3, PageFacts, TimesOrder
            <4> QED BY <1>5, <2>3, <4>1
        <3>2. ((q - p) + ss) % ww = (q - p) + ss
            BY <3>1
        <3>3. E!roundup((q - p) + ss) = (q - p) + ss
            BY <2>5, UpExact
        <3> QED BY <1>4, <2>3, <2>5, <3>2, <3>3 DEF E!Size
    <2>7. A \in SUBSET (u..(w - 1))
        <3>1. ASSUME NEW b \in A PROVE b \in u..(w - 1)
            <4>1. PICK j \in E!Program(f) : b \in E!PagesOf(f.ph[j])
                BY <1>7, <3>1, InTaken
            <4>2. PICK h : h = f.ph[j] /\ IsHeader(h)
                BY <1>1
            <4>3. PICK v \in Nat, o \in Nat, t \in Nat, n \in Nat : SegIs(h, v, o, t, n)
                BY <4>2, Segment
            <4>4. PICK a \in Nat, y \in Nat : a = h.va /\ y = h.memsz
                BY <4>2, HeaderFields
            <4>5. /\ a = ElfPage * v + o /\ o < ElfPage
                  /\ ElfPage * t < a + y + ElfPage /\ E!PagesOf(h) = v..(t - 1)
                BY <4>3, <4>4 DEF SegIs
            <4>6. p <= a /\ a + y <= q
                BY <2>3, <4>2, <4>4
            <4>7. u <= v
                <5>1. ElfPage * 1 = ElfPage
                    BY PageFacts
                <5>2. ElfPage * (v + 1) = ElfPage * v + ElfPage * 1
                    BY PageFacts, TimesAdd
                <5>3. ElfPage * u < ElfPage * (v + 1)
                    <6>1. PICK c \in Nat : c = ElfPage * v
                        BY PageFacts
                    <6> QED BY <2>2, <4>5, <4>6, <5>1, <5>2, <6>1, PageFacts
                <5>4. u < v + 1
                    BY <5>3, PageFacts, TimesOrder
                <5> QED BY <5>4
            <4>8. t <= w
                <5>1. ElfPage * 1 = ElfPage
                    BY PageFacts
                <5>2. ElfPage * (w + 1) = ElfPage * w + ElfPage * 1
                    BY PageFacts, TimesAdd
                <5>3. ElfPage * t < ElfPage * (w + 1)
                    <6>1. PICK c \in Nat : c = ElfPage * t
                        BY PageFacts
                    <6> QED BY <2>2, <4>5, <4>6, <5>1, <5>2, <6>1, PageFacts
                <5>4. t < w + 1
                    BY <5>3, PageFacts, TimesOrder
                <5> QED BY <5>4
            <4>9. b \in v..(t - 1)
                BY <4>1, <4>2, <4>5
            <4> QED BY <4>7, <4>8, <4>9
        <3> QED BY <3>1
    <2>8. IsFiniteSet(A) /\ Cardinality(A) <= w - u
        <3>1. IsFiniteSet(u..(w - 1)) /\ Cardinality(u..(w - 1)) = IF u > w - 1 THEN 0 ELSE (w - 1) - u + 1
            BY FS_Interval
        <3>2. Cardinality(u..(w - 1)) = w - u
            BY <2>3, <3>1
        <3> QED BY <2>7, <3>1, <3>2, FS_Subset
    <2>9. Holds(f, z)
        <3>1. Cardinality(A) \in Nat
            BY <2>8, FS_CardinalityType
        <3>2. Cardinality(A) + sp <= z
            BY <2>3, <2>4, <2>8, <3>1
        <3> QED BY <1>6, <1>7, <2>8, <3>2 DEF Holds
    <2> QED BY <2>3, <2>6, <2>9
<1> QED BY <1>8, <1>9 DEF Found
-----------------------------------------------------------------------------
(***************************************************************************)
(* What is read through a directory: address b reads c from memory m, at   *)
(* a physical address below top.                                           *)
(***************************************************************************)
HasByte(m, d, b, top, c) ==
    /\ b \div ElfPage \in DOMAIN d
    /\ \E x \in Nat : x = d[b \div ElfPage] * ElfPage + (b % ElfPage) /\ x < top /\ m[x] = c

HasSeg(m, d, h, bytes, top) ==
    \A b \in 0..(h.memsz - 1) :
        HasByte(m, d, h.va + b, top, IF b < h.filesz THEN bytes[h.off + b + 1] ELSE 0)

HasStack(m, d, top) == \A b \in (ElfKernel - ElfStack)..(ElfKernel - 1) : HasByte(m, d, b, top, 0)

AlikeBelow(m, m2, top) == \A x \in Nat : x < top => m2[x] = m[x]

(***************************************************************************)
(* A byte stays loaded while the memory below a bound and its page's entry *)
(* stay.                                                                   *)
(***************************************************************************)
LEMMA ByteKept ==
    ASSUME NEW m, NEW m2, NEW d, NEW d2, NEW b, NEW top \in Nat, NEW top2 \in Nat, NEW c,
           HasByte(m, d, b, top, c), AlikeBelow(m, m2, top), top <= top2,
           b \div ElfPage \in DOMAIN d2, d2[b \div ElfPage] = d[b \div ElfPage]
    PROVE  HasByte(m2, d2, b, top2, c)
<1>1. PICK x \in Nat : x = d[b \div ElfPage] * ElfPage + (b % ElfPage) /\ x < top /\ m[x] = c
    BY DEF HasByte
<1>2. x < top2 /\ m2[x] = c
    BY <1>1 DEF AlikeBelow
<1>3. x = d2[b \div ElfPage] * ElfPage + (b % ElfPage)
    BY <1>1
<1> QED BY <1>2, <1>3 DEF HasByte

(***************************************************************************)
(* The page of an address between two page boundaries.                     *)
(***************************************************************************)
LEMMA InPages ==
    ASSUME NEW v \in Nat, NEW t \in Nat, NEW b \in Nat, ElfPage * v <= b, b < ElfPage * t
    PROVE  b \div ElfPage \in v..(t - 1)
<1>1. PICK q \in Nat, k \in Nat : q = b \div ElfPage /\ k = b % ElfPage /\ k < ElfPage /\ b = ElfPage * q + k
    BY PageFacts, DivMod
<1>2. PICK x \in Nat, y \in Nat, z \in Nat : x = ElfPage * v /\ y = ElfPage * t /\ z = ElfPage * q
    BY PageFacts
<1>3. ElfPage * (q + 1) = z + ElfPage
    <2>1. ElfPage * 1 = ElfPage
        BY PageFacts
    <2>2. ElfPage * (q + 1) = ElfPage * q + ElfPage * 1
        BY PageFacts, TimesAdd
    <2> QED BY <1>2, <2>1, <2>2
<1>4. b = z + k /\ x <= b /\ b < y
    BY <1>1, <1>2
<1>5. x < z + ElfPage /\ z < y
    BY <1>1, <1>4, PageFacts
<1>6. v < q + 1
    <2>1. ElfPage * v < ElfPage * (q + 1)
        BY <1>2, <1>3, <1>5
    <2> QED BY <2>1, PageFacts, TimesOrder
<1>7. q < t
    <2>1. ElfPage * q < ElfPage * t
        BY <1>2, <1>5
    <2> QED BY <2>1, PageFacts, TimesOrder
<1> QED BY <1>1, <1>6, <1>7

(***************************************************************************)
(* An address in a segment is on one of its pages.                         *)
(***************************************************************************)
LEMMA SegAddress ==
    ASSUME NEW h, IsHeader(h), NEW b \in 0..(h.memsz - 1)
    PROVE  h.va + b \in Nat /\ (h.va + b) \div ElfPage \in E!PagesOf(h)
<1>1. PICK a \in Nat, z \in Nat : a = h.va /\ z = h.memsz
    BY HeaderFields
<1>2. PICK v \in Nat, o \in Nat, t \in Nat, n \in Nat : SegIs(h, v, o, t, n)
    BY Segment
<1>3. a = ElfPage * v + o /\ a + z <= ElfPage * t /\ E!PagesOf(h) = v..(t - 1)
    BY <1>1, <1>2 DEF SegIs
<1>4. PICK x \in Nat, y \in Nat : x = ElfPage * v /\ y = ElfPage * t
    BY PageFacts
<1>5. a = x + o /\ a + z <= y
    BY <1>3, <1>4
<1>6. b \in 0..(z - 1)
    BY <1>1
<1>7. a + b \in Nat /\ x <= a + b /\ a + b < y
    BY <1>5, <1>6
<1>8. (a + b) \div ElfPage \in v..(t - 1)
    BY <1>4, <1>7, InPages
<1> QED BY <1>1, <1>3, <1>7, <1>8

(***************************************************************************)
(* Segments loaded before stay: the directory gets other pages, memory is  *)
(* written above them.                                                     *)
(***************************************************************************)
LEMMA SegKept ==
    ASSUME NEW m, NEW m2, NEW d, NEW h, IsHeader(h), NEW bytes, NEW top \in Nat, NEW top2 \in Nat,
           HasSeg(m, d, h, bytes, top), AlikeBelow(m, m2, top), top <= top2,
           NEW v, NEW a, NEW c, E!PagesOf(h) \cap v..(v + c - 1) = {}
    PROVE  HasSeg(m2, Entered(d, v, a, c), h, bytes, top2)
<1>1. PICK d2 : d2 = Entered(d, v, a, c)
    OBVIOUS
<1>2. DOMAIN d2 = DOMAIN d \cup v..(v + c - 1) /\ \A q \in DOMAIN d : q \notin v..(v + c - 1) => d2[q] = d[q]
    BY <1>1 DEF Entered
<1>3. ASSUME NEW b \in 0..(h.memsz - 1)
      PROVE  HasByte(m2, d2, h.va + b, top2, IF b < h.filesz THEN bytes[h.off + b + 1] ELSE 0)
    <2>1. PICK c0 : c0 = IF b < h.filesz THEN bytes[h.off + b + 1] ELSE 0
        OBVIOUS
    <2>2. PICK g : g = h.va + b
        OBVIOUS
    <2>3. HasByte(m, d, g, top, c0)
        BY <2>1, <2>2 DEF HasSeg
    <2>4. g \div ElfPage \in E!PagesOf(h)
        BY <2>2, SegAddress
    <2>5. g \div ElfPage \in DOMAIN d
        BY <2>3 DEF HasByte
    <2>6. g \div ElfPage \in DOMAIN d2 /\ d2[g \div ElfPage] = d[g \div ElfPage]
        BY <1>2, <2>4, <2>5
    <2>7. HasByte(m2, d2, g, top2, c0)
        BY <2>3, <2>6, ByteKept
    <2> QED BY <2>1, <2>2, <2>7
<1> QED BY <1>1, <1>3 DEF HasSeg

(***************************************************************************)
(* A segment stays loaded while the memory below a bound stays.            *)
(***************************************************************************)
LEMMA SegStays ==
    ASSUME NEW m, NEW m2, NEW d, NEW h, NEW bytes, NEW top \in Nat, NEW top2 \in Nat,
           HasSeg(m, d, h, bytes, top), AlikeBelow(m, m2, top), top <= top2
    PROVE  HasSeg(m2, d, h, bytes, top2)
<1>1. ASSUME NEW b \in 0..(h.memsz - 1)
      PROVE  HasByte(m2, d, h.va + b, top2, IF b < h.filesz THEN bytes[h.off + b + 1] ELSE 0)
    <2>1. PICK c0 : c0 = IF b < h.filesz THEN bytes[h.off + b + 1] ELSE 0
        OBVIOUS
    <2>2. PICK g : g = h.va + b
        OBVIOUS
    <2>3. HasByte(m, d, g, top, c0)
        BY <2>1, <2>2 DEF HasSeg
    <2>4. g \div ElfPage \in DOMAIN d
        BY <2>3 DEF HasByte
    <2>5. HasByte(m2, d, g, top2, c0)
        BY <2>3, <2>4, ByteKept
    <2> QED BY <2>1, <2>2, <2>5
<1> QED BY <1>1 DEF HasSeg

(***************************************************************************)
(* An address of the pages that were entered.                              *)
(***************************************************************************)
LEMMA Translate ==
    ASSUME NEW d, NEW v \in Nat, NEW a \in Nat, NEW c \in Nat, NEW b \in Nat,
           ElfPage * v <= b, b < ElfPage * (v + c)
    PROVE  /\ b \div ElfPage \in DOMAIN Entered(d, v, a, c)
           /\ \E x \in Nat : /\ x = Entered(d, v, a, c)[b \div ElfPage] * ElfPage + (b % ElfPage)
                             /\ x = ElfPage * a + (b - ElfPage * v)
                             /\ b - ElfPage * v \in Nat /\ b - ElfPage * v < ElfPage * c
<1>1. PICK q \in Nat, k \in Nat : q = b \div ElfPage /\ k = b % ElfPage /\ k < ElfPage /\ b = ElfPage * q + k
    BY PageFacts, DivMod
<1>2. q \in v..(v + c - 1)
    <2>1. v + c \in Nat
        OBVIOUS
    <2>2. b \div ElfPage \in v..((v + c) - 1)
        BY <2>1, InPages
    <2>3. (v + c) - 1 = v + c - 1
        OBVIOUS
    <2> QED BY <1>1, <2>2, <2>3
<1>3. q \in DOMAIN Entered(d, v, a, c) /\ Entered(d, v, a, c)[q] = a + q - v
    BY <1>2 DEF Entered
<1>4. PICK i \in Nat : i = q - v
    BY <1>2
<1>5. PICK A \in Nat, B \in Nat, C \in Nat, I \in Nat, Q \in Nat :
          A = ElfPage * a /\ B = ElfPage * v /\ C = ElfPage * c /\ I = ElfPage * i /\ Q = ElfPage * q
    BY PageFacts
<1>6. I = Q - B
    BY <1>4, <1>5, PageFacts, TimesAdd
<1>7. b = Q + k /\ b - B = I + k
    <2>1. b = Q + k
        BY <1>1, <1>5
    <2> QED BY <1>6, <2>1
<1>8. b - B < C
    <2>1. ElfPage * (v + c) = B + C
        BY <1>5, PageFacts, TimesAdd
    <2> QED BY <1>5, <2>1
<1>9. PICK x \in Nat : x = A + (I + k)
    OBVIOUS
<1>10. (a + q - v) * ElfPage + k = x
    <2>1. a + q - v = a + i /\ a + i \in Nat
        BY <1>4
    <2>2. (a + i) * ElfPage = ElfPage * (a + i)
        BY PageFacts
    <2>3. ElfPage * (a + i) = A + I
        BY <1>5, PageFacts, TimesAdd
    <2> QED BY <1>9, <2>1, <2>2, <2>3
<1>11. x = Entered(d, v, a, c)[b \div ElfPage] * ElfPage + (b % ElfPage)
    BY <1>1, <1>3, <1>10
<1>12. x = ElfPage * a + (b - ElfPage * v) /\ b - ElfPage * v \in Nat /\ b - ElfPage * v < ElfPage * c
    BY <1>5, <1>7, <1>8, <1>9
<1> QED BY <1>1, <1>3, <1>11, <1>12

(***************************************************************************)
(* A turn of the second pass puts a segment into memory that is clear.     *)
(***************************************************************************)
ClearFrom(m, a, b) == \A x \in Nat : a <= x /\ x < b => m[x] = 0
Ramlike(m) == DOMAIN m = 0..(Ram - 1)

(***************************************************************************)
(* What copying a segment leaves in memory.                                *)
(***************************************************************************)
LEMMA Copied ==
    ASSUME NEW m, Ramlike(m), NEW h, IsHeader(h), NEW g \in Nat, NEW bytes
    PROVE  LET r == E!CopySegment(m, h, g, bytes)
               y == g + (h.va % ElfPage)
           IN  /\ Ramlike(r)
               /\ \A x \in 0..(Ram - 1) :
                     r[x] = IF y <= x /\ x < y + h.filesz THEN bytes[h.off + x - y + 1] ELSE m[x]
               /\ AlikeBelow(m, r, IF y <= Ram THEN y ELSE Ram)
<1>1. PICK y \in Nat : y = g + (h.va % ElfPage)
    <2>1. h.va % ElfPage \in Nat
        BY HeaderFields, PageFacts
    <2> QED BY <2>1
<1>2. h.filesz \in Nat
    BY HeaderFields
<1>3. PICK r : r = E!CopySegment(m, h, g, bytes)
    OBVIOUS
<1>4. r = [b \in DOMAIN m |-> IF b \in y..(y + h.filesz - 1) THEN bytes[h.off + b - y + 1] ELSE m[b]]
    BY <1>1, <1>3 DEF E!CopySegment
<1>5. Ramlike(r)
    BY <1>4 DEF Ramlike
<1>6. ASSUME NEW x \in 0..(Ram - 1)
      PROVE  r[x] = IF y <= x /\ x < y + h.filesz THEN bytes[h.off + x - y + 1] ELSE m[x]
    <2>1. x \in y..(y + h.filesz - 1) <=> (y <= x /\ x < y + h.filesz)
        BY <1>2
    <2>2. x \in DOMAIN m
        BY DEF Ramlike
    <2> QED BY <1>4, <2>1, <2>2
<1>7. AlikeBelow(m, r, IF y <= Ram THEN y ELSE Ram)
    <2>1. ASSUME NEW x \in Nat, x < IF y <= Ram THEN y ELSE Ram PROVE r[x] = m[x]
        <3>1. x \in 0..(Ram - 1) /\ ~(y <= x)
            BY <2>1, PageFacts
        <3> QED BY <1>6, <3>1
    <2> QED BY <2>1 DEF AlikeBelow
<1> QED BY <1>1, <1>3, <1>5, <1>6, <1>7

(***************************************************************************)
(* Copying a segment to cleared pages and entering them loads it: the      *)
(* bytes of the file, then zeros.                                          *)
(***************************************************************************)
LEMMA SegLoaded ==
    ASSUME NEW m, Ramlike(m), NEW d, NEW h, IsHeader(h), NEW bytes,
           NEW v \in Nat, NEW o \in Nat, NEW t \in Nat, NEW n \in Nat, SegIs(h, v, o, t, n),
           NEW a \in Nat, NEW c \in Nat, c = t - v, NEW g \in Nat, g = ElfPage * a,
           NEW e \in Nat, e = ElfPage * c, g + e <= Ram, ClearFrom(m, g, g + e)
    PROVE  /\ HasSeg(E!CopySegment(m, h, g, bytes), Entered(d, v, a, c), h, bytes, g + e)
           /\ g + o + h.filesz <= g + e
<1>1. PICK w \in Nat, z \in Nat, fz \in Nat, off \in Nat :
          w = h.va /\ z = h.memsz /\ fz = h.filesz /\ off = h.off /\ fz <= z
    BY HeaderFields
<1>2. w = ElfPage * v + o /\ o < ElfPage /\ o = h.va % ElfPage /\ w + z <= ElfPage * t /\ v <= t
    BY <1>1 DEF SegIs
<1>3. PICK B \in Nat, D \in Nat : B = ElfPage * v /\ D = ElfPage * t
    BY PageFacts
<1>4. e = D - B
    BY <1>3, PageFacts, TimesAdd
<1>5. w = B + o /\ w + z <= D
    BY <1>2, <1>3
<1>6. PICK r : r = E!CopySegment(m, h, g, bytes)
    OBVIOUS
<1>7. PICK y \in Nat : y = g + o
    OBVIOUS
<1>8. \A x \in 0..(Ram - 1) :
          r[x] = IF y <= x /\ x < y + fz THEN bytes[off + x - y + 1] ELSE m[x]
    BY <1>1, <1>2, <1>6, <1>7, Copied
<1>9. ASSUME NEW b \in 0..(h.memsz - 1)
      PROVE  HasByte(r, Entered(d, v, a, c), h.va + b, g + e, IF b < h.filesz THEN bytes[h.off + b + 1] ELSE 0)
    <2>1. b \in Nat /\ b < z
        BY <1>1
    <2>2. PICK A \in Nat : A = w + b
        BY <2>1
    <2>3. ElfPage * (v + c) = D
        <3>1. v + c = t
            BY <1>2
        <3> QED BY <1>3, <3>1
    <2>4. B <= A /\ A < D
        BY <1>5, <2>1, <2>2
    <2>5. /\ A \div ElfPage \in DOMAIN Entered(d, v, a, c)
          /\ \E x \in Nat : /\ x = Entered(d, v, a, c)[A \div ElfPage] * ElfPage + (A % ElfPage)
                            /\ x = ElfPage * a + (A - ElfPage * v)
                            /\ A - ElfPage * v \in Nat /\ A - ElfPage * v < ElfPage * c
        BY <1>3, <2>3, <2>4, Translate
    <2>6. PICK x \in Nat : /\ x = Entered(d, v, a, c)[A \div ElfPage] * ElfPage + (A % ElfPage)
                           /\ x = g + (A - B) /\ A - B < e
        BY <1>3, <2>5
    <2>7. x = y + b /\ x < g + e /\ g <= x
        BY <1>5, <1>7, <2>1, <2>2, <2>4, <2>6
    <2>8. x \in 0..(Ram - 1)
        BY <2>7, PageFacts
    <2>9. r[x] = IF b < fz THEN bytes[off + b + 1] ELSE 0
        <3>1. m[x] = 0
            BY <2>7 DEF ClearFrom
        <3>2. (y <= x /\ x < y + fz) <=> b < fz
            BY <2>1, <2>7
        <3>3. off + x - y + 1 = off + b + 1
            BY <2>1, <2>7
        <3> QED BY <1>8, <2>8, <3>1, <3>2, <3>3
    <2>10. HasByte(r, Entered(d, v, a, c), A, g + e, IF b < fz THEN bytes[off + b + 1] ELSE 0)
        BY <2>5, <2>6, <2>7, <2>9 DEF HasByte
    <2> QED BY <1>1, <2>2, <2>10
<1>10. HasSeg(r, Entered(d, v, a, c), h, bytes, g + e)
    BY <1>9 DEF HasSeg
<1>11. g + o + fz <= g + e
    BY <1>1, <1>4, <1>5
<1> QED BY <1>1, <1>6, <1>10, <1>11

(***************************************************************************)
(* The stack is put into memory that is clear.                             *)
(***************************************************************************)
LEMMA StackLoaded ==
    ASSUME NEW m, NEW d, NEW sp \in Nat, NEW kp \in Nat, NEW wp \in Nat, SizesAre(sp, kp, wp),
           NEW a \in Nat, NEW g \in Nat, g = ElfPage * a, ClearFrom(m, g, g + ElfStack)
    PROVE  HasStack(m, Entered(d, kp - sp, a, sp), g + ElfStack)
<1>1. PICK ss \in Nat, kk \in Nat : /\ ss = ElfStack /\ kk = ElfKernel
                                    /\ ss = ElfPage * sp /\ kk = ElfPage * kp /\ sp < kp
    BY PageFacts DEF SizesAre
<1>2. PICK v \in Nat : v = kp - sp /\ v + sp = kp
    BY <1>1
<1>3. ElfPage * v = kk - ss
    BY <1>1, <1>2, PageFacts, TimesAdd
<1>4. ASSUME NEW b \in (ElfKernel - ElfStack)..(ElfKernel - 1)
      PROVE  HasByte(m, Entered(d, v, a, sp), b, g + ElfStack, 0)
    <2>1. b \in Int /\ kk - ss <= b /\ b < kk
        BY <1>1
    <2>2. kk - ss \in Nat
        BY <1>3, PageFacts
    <2>3. b \in Nat
        BY <2>1, <2>2
    <2>4. /\ b \div ElfPage \in DOMAIN Entered(d, v, a, sp)
          /\ \E x \in Nat : /\ x = Entered(d, v, a, sp)[b \div ElfPage] * ElfPage + (b % ElfPage)
                            /\ x = ElfPage * a + (b - ElfPage * v)
                            /\ b - ElfPage * v \in Nat /\ b - ElfPage * v < ElfPage * sp
        BY <1>1, <1>2, <1>3, <2>1, <2>3, Translate
    <2>5. PICK x \in Nat : /\ x = Entered(d, v, a, sp)[b \div ElfPage] * ElfPage + (b % ElfPage)
                           /\ x = g + (b - (kk - ss)) /\ b - (kk - ss) < ss
        BY <1>1, <1>3, <2>4
    <2>6. g <= x /\ x < g + ss
        BY <2>1, <2>5
    <2>7. m[x] = 0
        BY <1>1, <2>6 DEF ClearFrom
    <2> QED BY <1>1, <2>4, <2>5, <2>6, <2>7 DEF HasByte
<1> QED BY <1>2, <1>4 DEF HasStack
-----------------------------------------------------------------------------
(***************************************************************************)
(* The invariant of Elf, of the values of its variables: memory m, the     *)
(* next free address nx, the region list rg, its size sz, the entry point  *)
(* ep, the current directory cu, the image im, the place pl and the locals *)
(* l.  While loadelf fills memory, what the process runs on lies below     *)
(* what it fills.                                                          *)
(***************************************************************************)
ElfRegion == [va : Nat, pa : Nat, len : Nat]

IsLoc(l) ==
    /\ l = [f |-> l.f, i |-> l.i, min |-> l.min, max |-> l.max, pd |-> l.pd, mem |-> l.mem]
    /\ l.f \in Execs /\ l.i \in 1..(Len(l.f.ph) + 1)

ScanInv(l) == IsLoc(l) /\ Found(l.f, l.i, l.min, l.max) /\ l.pd = <<>>

Good(f) == E!PageDisjoint(f) /\ E!StaysInSize(f)

SegsEndBelow(f, b) == \A j \in E!Program(f) : f.ph[j].va + f.ph[j].memsz <= b

HasSegs(m, d, f, i, top) == \A j \in E!Program(f) : j < i => HasSeg(m, d, f.ph[j], f.bytes, top)

RegionsIn(rg, lo, hi) == \A k \in DOMAIN rg : lo <= rg[k].pa /\ rg[k].pa + rg[k].len <= hi

LoadAt(l, m, nx, rg, sz, b0, z, a) ==
    /\ IsLoc(l)
    /\ sz = ElfPage * z /\ nx = ElfPage * b0 + sz /\ l.mem = ElfPage * a /\ b0 <= a
    /\ Holds(l.f, z)
    /\ SegsEndBelow(l.f, l.max)
    /\ Describes(l.pd, rg)
    /\ E!PageDisjoint(l.f) => /\ a <= b0 + Cardinality(Taken(l.f, l.i))
                              /\ RegionsIn(rg, ElfPage * b0, l.mem + ElfPage)
    /\ Good(l.f) => ClearFrom(m, l.mem, nx) /\ HasSegs(m, l.pd, l.f, l.i, l.mem)

LoadInv(l, m, nx, rg, sz) == \E b0 \in Nat, z \in Nat, a \in Nat : LoadAt(l, m, nx, rg, sz, b0, z, a)

RunsInv(im, ep, cu, m, top) ==
    im # E!None =>
        /\ im \in Execs /\ ep = im.entry /\ SegsEndBelow(im, cu.base)
        /\ Good(im) => HasSegs(m, cu.cr3, im, Len(im.ph) + 1, top) /\ HasStack(m, cu.cr3, top)

InSize(im, rg, sz) ==
    im # E!None /\ E!PageDisjoint(im) =>
        \A j, k \in DOMAIN rg : rg[j].pa + rg[j].len - rg[k].pa <= sz

Targets(nx) == nx \in Nat /\ nx <= Ram /\ \E y \in Nat : nx = ElfPage * y

Floor(pl, nx, sz) == IF pl = "load" THEN nx - sz ELSE nx

ElfState(m, nx, rg, sz, ep, cu, im, pl, l) ==
    /\ Ramlike(m) /\ Targets(nx) /\ rg \in Seq(ElfRegion)
    /\ pl \in {"user", "scan"} => Describes(cu.cr3, rg) /\ InSize(im, rg, sz)
    /\ pl = "scan" => ScanInv(l)
    /\ pl = "load" => LoadInv(l, m, nx, rg, sz)
    /\ RunsInv(im, ep, cu, m, Floor(pl, nx, sz))

-----------------------------------------------------------------------------
(***************************************************************************)
(* What a process runs on stays while memory changes above it.             *)
(***************************************************************************)
LEMMA StackStays ==
    ASSUME NEW m, NEW m2, NEW d, NEW top \in Nat, NEW top2 \in Nat,
           HasStack(m, d, top), AlikeBelow(m, m2, top), top <= top2
    PROVE  HasStack(m2, d, top2)
<1>1. ASSUME NEW b \in (ElfKernel - ElfStack)..(ElfKernel - 1) PROVE HasByte(m2, d, b, top2, 0)
    <2>1. HasByte(m, d, b, top, 0)
        BY DEF HasStack
    <2>2. b \div ElfPage \in DOMAIN d
        BY <2>1 DEF HasByte
    <2> QED BY <2>1, <2>2, ByteKept
<1> QED BY <1>1 DEF HasStack

(***************************************************************************)
(* The process that runs keeps its image while the memory below a bound    *)
(* stays.                                                                  *)
(***************************************************************************)
LEMMA RunsOn ==
    ASSUME NEW m, NEW m2, NEW im, NEW ep, NEW cu, NEW top \in Nat, NEW top2 \in Nat,
           RunsInv(im, ep, cu, m, top), AlikeBelow(m, m2, top), top <= top2
    PROVE  RunsInv(im, ep, cu, m2, top2)
<1>1. ASSUME NEW i, HasSegs(m, cu.cr3, im, i, top) PROVE HasSegs(m2, cu.cr3, im, i, top2)
    BY <1>1, SegStays DEF HasSegs
<1>2. HasStack(m, cu.cr3, top) => HasStack(m2, cu.cr3, top2)
    BY StackStays
<1> QED BY <1>1, <1>2 DEF RunsInv

(***************************************************************************)
(* Calls, the scan and every way out of it.                                *)
(***************************************************************************)
LEMMA PlaceTaken ==
    ASSUME NEW m, NEW nx, NEW rg, NEW sz, NEW ep, NEW cu, NEW im, NEW pl, NEW l,
           ElfState(m, nx, rg, sz, ep, cu, im, pl, l), pl \in {"user", "scan"},
           NEW pl2 \in {"user", "scan", "assert", "fault"}, NEW l2, pl2 = "scan" => ScanInv(l2),
           NEW rg2 \in Seq(ElfRegion), pl2 \in {"user", "scan"} => rg2 = rg
    PROVE  ElfState(m, nx, rg2, sz, ep, cu, im, pl2, l2)
<1>1. Floor(pl, nx, sz) = nx /\ Floor(pl2, nx, sz) = nx
    BY DEF Floor
<1>2. Ramlike(m) /\ Targets(nx) /\ Describes(cu.cr3, rg) /\ InSize(im, rg, sz) /\ RunsInv(im, ep, cu, m, nx)
    BY <1>1 DEF ElfState
<1> QED BY <1>1, <1>2 DEF ElfState

(***************************************************************************)
(* Between the passes.                                                     *)
(***************************************************************************)
LEMMA ClearsMemory ==
    ASSUME NEW m, Ramlike(m), NEW a \in Nat, NEW sz \in Nat, a + sz <= Ram
    PROVE  /\ Ramlike(E!Cleared(m, a, sz)) /\ AlikeBelow(m, E!Cleared(m, a, sz), a)
           /\ ClearFrom(E!Cleared(m, a, sz), a, a + sz)
<1>1. PICK r : r = E!Cleared(m, a, sz)
    OBVIOUS
<1>2. r = [b \in DOMAIN m |-> IF b \in a..(a + sz - 1) THEN 0 ELSE m[b]]
    BY <1>1 DEF E!Cleared
<1>3. DOMAIN m = 0..(Ram - 1)
    BY DEF Ramlike
<1>4. ASSUME NEW x \in Nat, x < a PROVE r[x] = m[x]
    <2>1. x \in 0..(Ram - 1) /\ x \notin a..(a + sz - 1)
        BY <1>4, PageFacts
    <2> QED BY <1>2, <1>3, <2>1
<1>5. ASSUME NEW x \in Nat, a <= x, x < a + sz PROVE r[x] = 0
    <2>1. x \in 0..(Ram - 1) /\ x \in a..(a + sz - 1)
        BY <1>5, PageFacts
    <2> QED BY <1>2, <1>3, <2>1
<1>6. Ramlike(r)
    BY <1>2 DEF Ramlike
<1>7. AlikeBelow(m, r, a)
    BY <1>4 DEF AlikeBelow
<1>8. ClearFrom(r, a, a + sz)
    BY <1>5 DEF ClearFrom
<1> QED BY <1>1, <1>6, <1>7, <1>8

(***************************************************************************)
(* Taking the pages of the new process and clearing them.                  *)
(***************************************************************************)
LEMMA AllocateStep ==
    ASSUME NEW m, NEW nx, NEW rg, NEW sz, NEW ep, NEW cu, NEW im, NEW l,
           ElfState(m, nx, rg, sz, ep, cu, im, "scan", l), l.i > Len(l.f.ph),
           NEW s, s = E!Size(l), nx + s <= Ram
    PROVE  ElfState(E!Cleared(m, nx, s), nx + s, <<>>, s, ep, cu, im, "load",
                    [l EXCEPT !.i = 1, !.mem = nx])
<1>1. /\ Ramlike(m) /\ nx \in Nat /\ IsLoc(l) /\ Found(l.f, l.i, l.min, l.max) /\ l.pd = <<>>
      /\ RunsInv(im, ep, cu, m, nx)
    BY DEF ElfState, Targets, ScanInv, Floor
<1>2. PICK y \in Nat : nx = ElfPage * y
    BY DEF ElfState, Targets
<1>3. l.f \in Execs /\ l.i = Len(l.f.ph) + 1 /\ Len(l.f.ph) \in Nat
    <2>1. l.f \in Execs /\ l.i \in 1..(Len(l.f.ph) + 1)
        BY <1>1 DEF IsLoc
    <2>2. Len(l.f.ph) \in Nat
        BY <2>1, Headers
    <2> QED BY <2>1, <2>2
<1>4. PICK z \in Nat : s = ElfPage * z /\ Holds(l.f, z) /\ SegsEndBelow(l.f, l.max)
    BY <1>1, <1>3, SizeHolds DEF SegsEndBelow
<1>5. s \in Nat
    BY <1>4, PageFacts
<1>6. PICK r : r = E!Cleared(m, nx, s) /\ Ramlike(r) /\ AlikeBelow(m, r, nx) /\ ClearFrom(r, nx, nx + s)
    BY <1>1, <1>5, ClearsMemory
<1>7. PICK k : k = [l EXCEPT !.i = 1, !.mem = nx]
    OBVIOUS
<1>8. /\ k = [f |-> l.f, i |-> 1, min |-> l.min, max |-> l.max, pd |-> <<>>, mem |-> nx]
      /\ k.f = l.f /\ k.i = 1 /\ k.max = l.max /\ k.pd = <<>> /\ k.mem = nx
    <2>1. l = [f |-> l.f, i |-> l.i, min |-> l.min, max |-> l.max, pd |-> l.pd, mem |-> l.mem]
        BY <1>1 DEF IsLoc
    <2>2. k = [f |-> l.f, i |-> 1, min |-> l.min, max |-> l.max, pd |-> l.pd, mem |-> nx]
        BY <1>7, <2>1
    <2> QED BY <1>1, <2>2
<1>9. IsLoc(k)
    BY <1>3, <1>8 DEF IsLoc
<1>10. Describes(<<>>, <<>>)
    BY DEF Describes
<1>11. Taken(l.f, 1) = {} /\ \A j \in E!Program(l.f) : ~(j < 1)
    <2>1. \A j \in E!Program(l.f) : j \in 1..Len(l.f.ph)
        BY <1>3, Headers DEF E!Program
    <2>2. \A j \in E!Program(l.f) : ~(j < 1)
        BY <1>3, <2>1
    <2> QED BY <2>2, InTaken
<1>12. Cardinality(Taken(l.f, 1)) = 0
    BY <1>11, FS_EmptySet
<1>13. LoadAt(k, r, nx + s, <<>>, s, y, z, y)
    <2>1. RegionsIn(<<>>, ElfPage * y, k.mem + ElfPage)
        BY DEF RegionsIn
    <2>2. HasSegs(r, k.pd, k.f, k.i, k.mem)
        BY <1>8, <1>11 DEF HasSegs
    <2>3. ClearFrom(r, k.mem, nx + s)
        BY <1>6, <1>8
    <2>4. y <= y + Cardinality(Taken(k.f, k.i))
        BY <1>8, <1>12
    <2>5. s = ElfPage * z /\ nx + s = ElfPage * y + s /\ k.mem = ElfPage * y
        BY <1>2, <1>4, <1>8
    <2> QED BY <1>4, <1>8, <1>9, <1>10, <2>1, <2>2, <2>3, <2>4, <2>5 DEF LoadAt
<1>14. LoadInv(k, r, nx + s, <<>>, s)
    BY <1>13 DEF LoadInv
<1>15. Targets(nx + s)
    <2>1. nx + s \in Nat
        BY <1>1, <1>5
    <2>2. nx + s = ElfPage * (y + z)
        BY <1>2, <1>4, PageFacts, TimesAdd
    <2> QED BY <2>1, <2>2 DEF Targets
<1>16. RunsInv(im, ep, cu, r, nx)
    BY <1>1, <1>6, RunsOn
<1>17. Floor("load", nx + s, s) = nx
    BY <1>1, <1>5 DEF Floor
<1>18. <<>> \in Seq(ElfRegion)
    OBVIOUS
<1>19. ElfState(r, nx + s, <<>>, s, ep, cu, im, "load", k)
    BY <1>6, <1>14, <1>15, <1>16, <1>17, <1>18 DEF ElfState
<1> QED BY <1>6, <1>7, <1>19
-----------------------------------------------------------------------------
(***************************************************************************)
(* The second pass.                                                        *)
(***************************************************************************)
LEMMA LoadSkip ==
    ASSUME NEW m, NEW nx, NEW rg, NEW sz, NEW ep, NEW cu, NEW im, NEW l,
           ElfState(m, nx, rg, sz, ep, cu, im, "load", l), l.i <= Len(l.f.ph),
           l.f.ph[l.i].type # E!PT_LOAD
    PROVE  ElfState(m, nx, rg, sz, ep, cu, im, "load", [l EXCEPT !.i = @ + 1])
<1>1. PICK b0 \in Nat, z \in Nat, a \in Nat : LoadAt(l, m, nx, rg, sz, b0, z, a)
    BY DEF ElfState, LoadInv
<1>2. IsLoc(l)
    BY <1>1 DEF LoadAt
<1>3. l.f \in Execs /\ l.i \in 1..Len(l.f.ph) /\ Len(l.f.ph) \in Nat
    <2>1. l.f \in Execs /\ l.i \in 1..(Len(l.f.ph) + 1)
        BY <1>2 DEF IsLoc
    <2>2. Len(l.f.ph) \in Nat
        BY <2>1, Headers
    <2> QED BY <2>1, <2>2
<1>4. PICK k : k = [l EXCEPT !.i = @ + 1]
    OBVIOUS
<1>5. /\ k = [f |-> l.f, i |-> l.i + 1, min |-> l.min, max |-> l.max, pd |-> l.pd, mem |-> l.mem]
      /\ k.f = l.f /\ k.i = l.i + 1 /\ k.max = l.max /\ k.pd = l.pd /\ k.mem = l.mem
    <2>1. l = [f |-> l.f, i |-> l.i, min |-> l.min, max |-> l.max, pd |-> l.pd, mem |-> l.mem]
        BY <1>2 DEF IsLoc
    <2>2. k = [f |-> l.f, i |-> l.i + 1, min |-> l.min, max |-> l.max, pd |-> l.pd, mem |-> l.mem]
        BY <1>4, <2>1
    <2> QED BY <2>2
<1>6. IsLoc(k)
    <2>1. l.i + 1 \in 1..(Len(l.f.ph) + 1)
        BY <1>3
    <2> QED BY <1>3, <1>5, <2>1 DEF IsLoc
<1>7. l.i \in DOMAIN l.f.ph /\ l.i \notin E!Program(l.f)
    BY <1>3, Headers DEF E!Program
<1>8. Taken(l.f, l.i + 1) = Taken(l.f, l.i)
    BY <1>3, <1>7, TakenMore
<1>9. HasSegs(m, l.pd, l.f, l.i, l.mem) => HasSegs(m, k.pd, k.f, k.i, k.mem)
    <2>1. \A j \in E!Program(l.f) : j \in Nat /\ j # l.i
        BY <1>3, <1>7, Headers DEF E!Program
    <2>2. \A j \in E!Program(l.f) : j < l.i + 1 => j < l.i
        BY <1>3, <2>1
    <2> QED BY <1>5, <2>2 DEF HasSegs
<1>10. LoadAt(k, m, nx, rg, sz, b0, z, a)
    BY <1>1, <1>5, <1>6, <1>8, <1>9 DEF LoadAt
<1>11. LoadInv(k, m, nx, rg, sz)
    BY <1>10 DEF LoadInv
<1>12. ElfState(m, nx, rg, sz, ep, cu, im, "load", k)
    BY <1>11 DEF ElfState
<1> QED BY <1>4, <1>12

(***************************************************************************)
(* The memory left for a segment.                                          *)
(***************************************************************************)
LEMMA RoomLeft ==
    ASSUME NEW f \in Execs, E!PageDisjoint(f), NEW i \in E!Program(f), NEW z \in Nat, Holds(f, z),
           NEW b0 \in Nat, NEW a \in Nat, a <= b0 + Cardinality(Taken(f, i)),
           NEW v \in Nat, NEW t \in Nat, v <= t, E!PagesOf(f.ph[i]) = v..(t - 1),
           NEW sp \in Nat, ElfStack = ElfPage * sp
    PROVE  /\ a + (t - v) <= b0 + Cardinality(Taken(f, i + 1))
           /\ a + (t - v) + sp <= b0 + z
<1>1. i \in DOMAIN f.ph /\ i \in 1..Len(f.ph) /\ Len(f.ph) \in Nat
    BY Headers DEF E!Program
<1>2. Taken(f, i + 1) = Taken(f, i) \cup v..(t - 1) /\ Taken(f, i) \cap v..(t - 1) = {}
    BY <1>1, TakenMore
<1>3. i \in 1..(Len(f.ph) + 1) /\ i + 1 \in 1..(Len(f.ph) + 1)
    BY <1>1
<1>4. IsFiniteSet(Taken(f, i)) /\ Cardinality(Taken(f, i)) \in Nat
    BY <1>3, TakenHeld
<1>5. Cardinality(Taken(f, i + 1)) \in Nat /\ Cardinality(Taken(f, i + 1)) + sp <= z
    BY <1>3, TakenHeld
<1>6. IsFiniteSet(v..(t - 1)) /\ Cardinality(v..(t - 1)) = t - v
    <2>1. IsFiniteSet(v..(t - 1)) /\ Cardinality(v..(t - 1)) = IF v > t - 1 THEN 0 ELSE (t - 1) - v + 1
        BY FS_Interval
    <2> QED BY <2>1
<1>7. Cardinality({}) = 0
    BY FS_EmptySet
<1>8. Cardinality(Taken(f, i + 1)) = Cardinality(Taken(f, i)) + (t - v)
    <2>1. PICK A, B : A = Taken(f, i) /\ B = v..(t - 1)
        OBVIOUS
    <2>2. Cardinality(A \cup B) = Cardinality(A) + Cardinality(B) - Cardinality(A \cap B)
        BY <1>4, <1>6, <2>1, FS_Union
    <2>3. Cardinality(A \cap B) = 0 /\ Cardinality(B) = t - v /\ Cardinality(A) \in Nat
        BY <1>2, <1>4, <1>6, <1>7, <2>1
    <2>4. Cardinality(A \cup B) = Cardinality(A) + (t - v)
        BY <2>2, <2>3
    <2> QED BY <1>2, <2>1, <2>4
<1> QED BY <1>4, <1>5, <1>8, SMTT(30)

(***************************************************************************)
(* Loading one segment: it fits in the pages allocated, disturbs no        *)
(* segment loaded before it, and the process that runs keeps its own.      *)
(***************************************************************************)
LEMMA LoadStep ==
    ASSUME NEW m, NEW nx, NEW rg, NEW sz, NEW ep, NEW cu, NEW im, NEW l,
           ElfState(m, nx, rg, sz, ep, cu, im, "load", l), l.i <= Len(l.f.ph),
           NEW h, h = l.f.ph[l.i], h.type = E!PT_LOAD, NEW r, r = E!Region(h, l.mem)
    PROVE  ElfState(E!CopySegment(m, h, l.mem, l.f.bytes), nx, <<r>> \o rg, sz, ep, cu, im, "load",
                    [l EXCEPT !.i = @ + 1, !.pd = E!alloc_pt(@, r.va, r.pa, r.len),
                              !.mem = @ + E!roundup(h.memsz)])
<1>1. PICK b0 \in Nat, z \in Nat, a \in Nat : LoadAt(l, m, nx, rg, sz, b0, z, a)
    BY DEF ElfState, LoadInv
<1>2. /\ IsLoc(l) /\ sz = ElfPage * z /\ nx = ElfPage * b0 + sz /\ l.mem = ElfPage * a /\ b0 <= a
      /\ Holds(l.f, z) /\ SegsEndBelow(l.f, l.max) /\ Describes(l.pd, rg)
    BY <1>1 DEF LoadAt
<1>3. PICK f : f = l.f
    OBVIOUS
<1>4. PICK i : i = l.i
    OBVIOUS
<1>5. f \in Execs /\ i \in 1..Len(f.ph) /\ Len(f.ph) \in Nat
    <2>1. l.f \in Execs /\ l.i \in 1..(Len(l.f.ph) + 1)
        BY <1>2 DEF IsLoc
    <2>2. Len(l.f.ph) \in Nat
        BY <2>1, Headers
    <2> QED BY <1>3, <1>4, <2>1, <2>2
<1>6. i \in DOMAIN f.ph /\ i \in E!Program(f) /\ IsHeader(h) /\ h = f.ph[i]
    <2>1. i \in DOMAIN f.ph /\ h = f.ph[i]
        BY <1>3, <1>4, <1>5, Headers
    <2> QED BY <1>5, <2>1, Headers DEF E!Program
<1>7. PICK v \in Nat, o \in Nat, t \in Nat, n \in Nat : SegIs(h, v, o, t, n)
    BY <1>6, Segment
<1>8. /\ o < ElfPage /\ v = h.va \div ElfPage /\ o = h.va % ElfPage
      /\ v <= t /\ n <= t - v /\ t - v <= n + 1
      /\ E!roundup(h.memsz) = ElfPage * n /\ E!PagesOf(h) = v..(t - 1)
      /\ E!roundup(h.memsz + o) = ElfPage * (t - v)
      /\ (o + h.memsz <= E!roundup(h.memsz) => n = t - v)
    BY <1>7 DEF SegIs
<1>a. v <= t
    BY <1>7 DEF SegIs
<1>b. h.va \div ElfPage = v
    BY <1>7 DEF SegIs
<1>9. PICK c \in Nat : c = t - v
    BY <1>a
<1>10. PICK g \in Nat, e \in Nat, w \in Nat, bb \in Nat :
          g = ElfPage * a /\ e = ElfPage * c /\ w = ElfPage * n /\ bb = ElfPage * b0
    BY PageFacts
<1>11. h.va \in Nat /\ h.memsz \in Nat /\ h.filesz \in Nat
    BY <1>6, HeaderFields
<1>12. r = [va |-> h.va, pa |-> g, len |-> e]
    <2>1. E!Region(h, l.mem) = [va |-> h.va, pa |-> l.mem, len |-> E!roundup(h.memsz + (h.va % ElfPage))]
        BY DEF E!Region
    <2> QED BY <1>2, <1>8, <1>9, <1>10, <2>1
<1>13. RegionIs(r, v, a, c) /\ r \in ElfRegion /\ r.pa = g /\ r.len = e
    BY <1>b, <1>10, <1>11, <1>12 DEF RegionIs, ElfRegion
<1>14. PICK d : d = l.pd
    OBVIOUS
<1>15. E!alloc_pt(l.pd, r.va, r.pa, r.len) = Entered(d, v, a, c)
    BY <1>13, <1>14, PagesEntered
<1>16. PICK k : k = [l EXCEPT !.i = @ + 1, !.pd = E!alloc_pt(@, r.va, r.pa, r.len),
                              !.mem = @ + E!roundup(h.memsz)]
    OBVIOUS
<1>17. /\ k = [f |-> f, i |-> i + 1, min |-> l.min, max |-> l.max, pd |-> Entered(d, v, a, c), mem |-> g + w]
       /\ k.f = f /\ k.i = i + 1 /\ k.max = l.max /\ k.pd = Entered(d, v, a, c) /\ k.mem = g + w
    <2>1. l = [f |-> l.f, i |-> l.i, min |-> l.min, max |-> l.max, pd |-> l.pd, mem |-> l.mem]
        BY <1>2 DEF IsLoc
    <2>2. k = [f |-> l.f, i |-> l.i + 1, min |-> l.min, max |-> l.max,
               pd |-> E!alloc_pt(l.pd, r.va, r.pa, r.len), mem |-> l.mem + E!roundup(h.memsz)]
        BY <1>16, <2>1
    <2>3. l.mem + E!roundup(h.memsz) = g + w
        BY <1>2, <1>8, <1>10
    <2>4. k = [f |-> f, i |-> i + 1, min |-> l.min, max |-> l.max, pd |-> Entered(d, v, a, c), mem |-> g + w]
        BY <1>3, <1>4, <1>15, <2>2, <2>3
    <2> QED BY <2>4
<1>18. IsLoc(k)
    <2>1. i + 1 \in 1..(Len(f.ph) + 1)
        BY <1>5
    <2> QED BY <1>5, <1>17, <2>1 DEF IsLoc
<1>19. rg \in Seq(ElfRegion) /\ Ramlike(m) /\ Targets(nx) /\ RunsInv(im, ep, cu, m, nx - sz)
    BY DEF ElfState, Floor
<1>20. PICK s : s = <<r>> \o rg /\ s \in Seq(ElfRegion) /\ Describes(Entered(d, v, a, c), s)
    <2>1. Describes(d, rg)
        BY <1>2, <1>14
    <2>2. Describes(Entered(d, v, a, c), <<r>> \o rg)
        BY <1>13, <1>19, <2>1, DescribesMore
    <2>3. <<r>> \o rg \in Seq(ElfRegion)
        BY <1>13, <1>19, NewestFirst
    <2> QED BY <2>2, <2>3
<1>21. nx \in Nat /\ nx <= Ram /\ sz \in Nat /\ nx = bb + sz
    BY <1>2, <1>10, <1>19, PageFacts DEF Targets
<1>22. bb <= g
    BY <1>2, <1>10, PageFacts, TimesOrder
<1>23. PICK m2 : m2 = E!CopySegment(m, h, l.mem, f.bytes)
    OBVIOUS
<1>24. m2 = E!CopySegment(m, h, g, f.bytes)
    BY <1>2, <1>10, <1>23
<1>25. PICK y \in Nat : y = g + o
    OBVIOUS
<1>26. /\ Ramlike(m2)
       /\ \A x \in 0..(Ram - 1) :
             m2[x] = IF y <= x /\ x < y + h.filesz THEN f.bytes[h.off + x - y + 1] ELSE m[x]
       /\ AlikeBelow(m, m2, IF y <= Ram THEN y ELSE Ram)
    BY <1>6, <1>8, <1>19, <1>24, <1>25, Copied, SMTT(30)
<1>27. ASSUME NEW x \in Nat, x <= g, x <= Ram PROVE AlikeBelow(m, m2, x)
    <2>1. PICK top \in Nat : top = (IF y <= Ram THEN y ELSE Ram) /\ AlikeBelow(m, m2, top)
        BY <1>26, PageFacts
    <2>2. x <= top
        BY <1>25, <1>27, <2>1, PageFacts
    <2> QED BY <2>1, <2>2 DEF AlikeBelow
<1>28. RunsInv(im, ep, cu, m2, nx - sz)
    <2>1. nx - sz = bb
        BY <1>21
    <2>2. bb <= Ram
        BY <1>21, PageFacts
    <2>3. AlikeBelow(m, m2, bb)
        BY <1>22, <1>27, <2>2
    <2> QED BY <1>19, <2>1, <2>3, RunsOn
<1>29. g + w = ElfPage * (a + n)
    BY <1>10, PageFacts, TimesAdd
<1>30. e <= w + ElfPage
    <2>1. c <= n + 1
        BY <1>8, <1>9
    <2>2. ElfPage * c <= ElfPage * (n + 1)
        BY <2>1, PageFacts, TimesOrder
    <2>3. ElfPage * (n + 1) = w + ElfPage
        <3>1. ElfPage * 1 = ElfPage
            BY PageFacts
        <3>2. ElfPage * (n + 1) = ElfPage * n + ElfPage * 1
            BY PageFacts, TimesAdd
        <3> QED BY <1>10, <3>1, <3>2
    <2> QED BY <1>10, <2>2, <2>3
<1>31. PICK sp \in Nat : ElfStack = ElfPage * sp
    BY SizeFacts DEF SizesAre
<1>32. ASSUME E!PageDisjoint(f)
       PROVE  a + c <= b0 + Cardinality(Taken(f, i + 1)) /\ a + c + sp <= b0 + z
    <2>1. a <= b0 + Cardinality(Taken(f, i))
        BY <1>1, <1>3, <1>4, <1>32 DEF LoadAt
    <2>2. Holds(f, z) /\ E!PagesOf(f.ph[i]) = v..(t - 1)
        BY <1>2, <1>3, <1>6, <1>8
    <2> QED BY <1>5, <1>6, <1>8, <1>9, <1>31, <1>32, <2>1, <2>2, RoomLeft
<1>33. ASSUME E!PageDisjoint(f)
       PROVE  a + n <= b0 + Cardinality(Taken(f, i + 1))
    <2>1. n <= c
        BY <1>8, <1>9
    <2>2. Cardinality(Taken(f, i + 1)) \in Nat
        <3>1. i + 1 \in 1..(Len(f.ph) + 1) /\ Holds(f, z)
            BY <1>2, <1>3, <1>5
        <3> QED BY <1>5, <1>31, <3>1, TakenHeld
    <2> QED BY <1>32, <1>33, <2>1, <2>2
<1>34. ASSUME E!PageDisjoint(f) PROVE RegionsIn(s, bb, (g + w) + ElfPage)
    <2>1. \A x \in DOMAIN rg : bb <= rg[x].pa /\ rg[x].pa + rg[x].len <= g + ElfPage
        BY <1>1, <1>2, <1>3, <1>10, <1>34 DEF LoadAt, RegionsIn
    <2>2. /\ DOMAIN s = 1..(Len(rg) + 1) /\ s[1] = r
          /\ \A j \in 2..(Len(rg) + 1) : j - 1 \in 1..Len(rg) /\ s[j] = rg[j - 1]
        BY <1>13, <1>19, <1>20, NewestFirst
    <2>3. Len(rg) \in Nat /\ DOMAIN rg = 1..Len(rg)
        BY <1>19
    <2>4. ASSUME NEW x \in DOMAIN s PROVE bb <= s[x].pa /\ s[x].pa + s[x].len <= (g + w) + ElfPage
        <3>1. CASE x = 1
            <4>1. g + e <= (g + w) + ElfPage
                BY <1>30, PageFacts
            <4> QED BY <1>13, <1>22, <2>2, <3>1, <4>1
        <3>2. CASE x # 1
            <4>1. x \in 2..(Len(rg) + 1)
                BY <2>2, <2>3, <3>2
            <4>2. x - 1 \in DOMAIN rg /\ s[x] = rg[x - 1]
                BY <2>2, <2>3, <4>1
            <4>3. PICK pa \in Nat, len \in Nat : pa = s[x].pa /\ len = s[x].len
                <5>1. rg[x - 1] \in ElfRegion
                    BY <1>19, <2>3, <4>2
                <5> QED BY <4>2, <5>1 DEF ElfRegion
            <4>4. bb <= pa /\ pa + len <= g + ElfPage
                BY <2>1, <4>2, <4>3
            <4> QED BY <4>3, <4>4, PageFacts
        <3> QED BY <3>1, <3>2
    <2> QED BY <2>4 DEF RegionsIn
<1>35. ASSUME Good(f) PROVE ClearFrom(m2, g + w, nx) /\ HasSegs(m2, Entered(d, v, a, c), f, i + 1, g + w)
    <2>1. E!PageDisjoint(f) /\ E!StaysInSize(f)
        BY <1>35 DEF Good
    <2>2. n = c /\ w = e
        <3>1. (h.va % ElfPage) + h.memsz <= E!roundup(h.memsz)
            BY <1>6, <2>1 DEF E!StaysInSize
        <3>2. n = c
            BY <1>8, <1>9, <3>1
        <3> QED BY <1>10, <3>2
    <2>3. g + e <= nx
        <3>1. a + c <= b0 + z
            BY <1>32, <2>1
        <3>2. ElfPage * (a + c) <= ElfPage * (b0 + z)
            BY <3>1, PageFacts, TimesOrder
        <3>3. ElfPage * (a + c) = g + e /\ ElfPage * (b0 + z) = bb + sz
            BY <1>2, <1>10, PageFacts, TimesAdd
        <3> QED BY <1>21, <3>2, <3>3
    <2>4. ClearFrom(m, g, nx) /\ HasSegs(m, d, f, i, g)
        BY <1>1, <1>2, <1>3, <1>4, <1>10, <1>14, <1>35 DEF LoadAt
    <2>5. ClearFrom(m, g, g + e)
        BY <1>21, <2>3, <2>4 DEF ClearFrom
    <2>6. HasSeg(m2, Entered(d, v, a, c), h, f.bytes, g + e) /\ g + o + h.filesz <= g + e
        <3>1. g + e <= Ram
            BY <1>21, <2>3, PageFacts
        <3> QED BY <1>6, <1>7, <1>9, <1>10, <1>19, <1>24, <2>5, <3>1, SegLoaded
    <2>7. ClearFrom(m2, g + w, nx)
        <3>1. ASSUME NEW x \in Nat, g + w <= x, x < nx PROVE m2[x] = 0
            <4>1. x \in 0..(Ram - 1) /\ ~(x < y + h.filesz) /\ g <= x
                BY <1>11, <1>21, <1>25, <2>2, <2>6, <3>1, PageFacts, SMTT(30)
            <4>2. m2[x] = m[x]
                BY <1>26, <4>1
            <4>3. m[x] = 0
                BY <2>4, <3>1, <4>1 DEF ClearFrom
            <4> QED BY <4>2, <4>3
        <3> QED BY <3>1 DEF ClearFrom
    <2>8. ASSUME NEW j \in E!Program(f), j < i + 1
          PROVE  HasSeg(m2, Entered(d, v, a, c), f.ph[j], f.bytes, g + w)
        <3>1. j \in DOMAIN f.ph /\ j \in Nat /\ IsHeader(f.ph[j])
            BY <1>5, Headers DEF E!Program
        <3>2. CASE j = i
            BY <1>6, <2>2, <2>6, <3>2
        <3>3. CASE j # i
            <4>1. j < i
                BY <1>5, <2>8, <3>1, <3>3
            <4>2. HasSeg(m, d, f.ph[j], f.bytes, g)
                BY <2>4, <4>1 DEF HasSegs
            <4>3. E!PagesOf(f.ph[j]) \cap E!PagesOf(f.ph[i]) = {}
                BY <1>6, <2>1, <3>3 DEF E!PageDisjoint
            <4>4. v..(t - 1) = v..(v + c - 1)
                BY <1>9
            <4>5. E!PagesOf(f.ph[j]) \cap v..(v + c - 1) = {}
                BY <1>6, <1>8, <4>3, <4>4
            <4>6. AlikeBelow(m, m2, g)
                <5>1. g <= Ram
                    BY <1>21, <2>3, PageFacts
                <5> QED BY <1>27, <5>1
            <4>7. g + w \in Nat /\ g <= g + w
                OBVIOUS
            <4> QED BY <3>1, <4>2, <4>5, <4>6, <4>7, SegKept
        <3> QED BY <3>2, <3>3
    <2> QED BY <2>7, <2>8 DEF HasSegs
<1>36. LoadAt(k, m2, nx, s, sz, b0, z, a + n)
    <2>1. b0 <= a + n
        BY <1>2
    <2>2. Holds(k.f, z) /\ SegsEndBelow(k.f, k.max)
        BY <1>2, <1>3, <1>17
    <2>3. Describes(k.pd, s)
        BY <1>17, <1>20
    <2>4. E!PageDisjoint(k.f) => /\ a + n <= b0 + Cardinality(Taken(k.f, k.i))
                                 /\ RegionsIn(s, ElfPage * b0, k.mem + ElfPage)
        BY <1>10, <1>17, <1>33, <1>34
    <2>5. Good(k.f) => ClearFrom(m2, k.mem, nx) /\ HasSegs(m2, k.pd, k.f, k.i, k.mem)
        BY <1>17, <1>35
    <2>6. sz = ElfPage * z /\ nx = ElfPage * b0 + sz /\ k.mem = ElfPage * (a + n)
        BY <1>2, <1>17, <1>29
    <2> QED BY <1>18, <2>1, <2>2, <2>3, <2>4, <2>5, <2>6 DEF LoadAt
<1>37. LoadInv(k, m2, nx, s, sz)
    <2>1. a + n \in Nat
        OBVIOUS
    <2> QED BY <1>36, <2>1 DEF LoadInv
<1>38. ElfState(m2, nx, s, sz, ep, cu, im, "load", k)
    BY <1>19, <1>20, <1>26, <1>28, <1>37 DEF ElfState, Floor
<1> QED BY <1>3, <1>16, <1>20, <1>23, <1>38

(***************************************************************************)
(* loadelf returns 0: the image runs.                                      *)
(***************************************************************************)
LEMMA BelowStack ==
    ASSUME NEW h, IsHeader(h), NEW sp \in Nat, NEW kp \in Nat, NEW wp \in Nat, SizesAre(sp, kp, wp)
    PROVE  E!PagesOf(h) \cap (kp - sp)..((kp - sp) + sp - 1) = {}
<1>1. PICK v \in Nat, o \in Nat, t \in Nat, n \in Nat : SegIs(h, v, o, t, n)
    BY Segment
<1>2. PICK ss \in Nat, kk \in Nat : /\ ss = ElfStack /\ kk = ElfKernel
                                    /\ ss = ElfPage * sp /\ kk = ElfPage * kp /\ sp < kp
    BY PageFacts DEF SizesAre
<1>3. PICK a \in Nat, z \in Nat, y \in Nat : a = h.va /\ z = h.memsz /\ a + z <= kk - ss /\ y = ElfPage * t
    BY <1>2, HeaderFields, PageFacts
<1>4. y < a + z + ElfPage /\ E!PagesOf(h) = v..(t - 1)
    BY <1>1, <1>3 DEF SegIs
<1>5. t <= kp - sp
    <2>1. ElfPage * (kp - sp) = kk - ss
        BY <1>2, PageFacts, TimesAdd
    <2>2. ElfPage * 1 = ElfPage
        BY PageFacts
    <2>3. ElfPage * ((kp - sp) + 1) = ElfPage * (kp - sp) + ElfPage * 1
        BY PageFacts, TimesAdd
    <2>4. ElfPage * t < ElfPage * ((kp - sp) + 1)
        <3>1. y < (kk - ss) + ElfPage
            BY <1>3, <1>4, PageFacts
        <3> QED BY <1>3, <2>1, <2>2, <2>3, <3>1
    <2>5. t < (kp - sp) + 1
        BY <2>4, PageFacts, TimesOrder
    <2> QED BY <2>5
<1> QED BY <1>4, <1>5

(***************************************************************************)
(* Mapping the stack and switching to the new process.                     *)
(***************************************************************************)
LEMMA FinishStep ==
    ASSUME NEW m, NEW nx, NEW rg, NEW sz, NEW ep, NEW cu, NEW im, NEW l,
           ElfState(m, nx, rg, sz, ep, cu, im, "load", l), l.i > Len(l.f.ph),
           NEW r, r = [va |-> ElfKernel - ElfStack, pa |-> l.mem, len |-> ElfStack], NEW l2
    PROVE  ElfState(m, nx, <<r>> \o rg, sz, l.f.entry,
                    [cr3 |-> E!alloc_pt(l.pd, r.va, r.pa, r.len), base |-> l.max], l.f, "user", l2)
<1>1. PICK b0 \in Nat, z \in Nat, a \in Nat : LoadAt(l, m, nx, rg, sz, b0, z, a)
    BY DEF ElfState, LoadInv
<1>2. /\ IsLoc(l) /\ sz = ElfPage * z /\ nx = ElfPage * b0 + sz /\ l.mem = ElfPage * a /\ b0 <= a
      /\ Holds(l.f, z) /\ SegsEndBelow(l.f, l.max) /\ Describes(l.pd, rg)
    BY <1>1 DEF LoadAt
<1>3. PICK f : f = l.f
    OBVIOUS
<1>4. PICK i : i = Len(f.ph) + 1
    OBVIOUS
<1>5. f \in Execs /\ i = l.i /\ Len(f.ph) \in Nat
    <2>1. l.f \in Execs /\ l.i \in 1..(Len(l.f.ph) + 1)
        BY <1>2 DEF IsLoc
    <2>2. Len(l.f.ph) \in Nat
        BY <2>1, Headers
    <2> QED BY <1>3, <1>4, <2>1, <2>2
<1>6. PICK sp \in Nat, kp \in Nat, wp \in Nat : SizesAre(sp, kp, wp)
    BY SizeFacts
<1>7. PICK ss \in Nat, kk \in Nat : /\ ss = ElfStack /\ kk = ElfKernel
                                    /\ ss = ElfPage * sp /\ kk = ElfPage * kp /\ 0 < sp /\ sp < kp
    BY <1>6, PageFacts DEF SizesAre
<1>8. PICK v \in Nat : v = kp - sp
    BY <1>7
<1>9. kk - ss = ElfPage * v /\ (kk - ss) \div ElfPage = v /\ kk - ss \in Nat
    <2>1. kk - ss = ElfPage * v
        BY <1>7, <1>8, PageFacts, TimesAdd
    <2>2. (ElfPage * v) \div ElfPage = v /\ ElfPage * v \in Nat
        BY UpExact, PageFacts
    <2> QED BY <2>1, <2>2
<1>10. PICK g \in Nat, bb \in Nat : g = ElfPage * a /\ bb = ElfPage * b0
    BY PageFacts
<1>11. r = [va |-> kk - ss, pa |-> g, len |-> ss]
    BY <1>2, <1>7, <1>10
<1>12. RegionIs(r, v, a, sp) /\ r \in ElfRegion /\ r.pa = g /\ r.len = ss
    <2>1. r.va = kk - ss /\ r.pa = g /\ r.len = ss
        BY <1>11
    <2>2. RegionIs(r, v, a, sp)
        BY <1>7, <1>9, <1>10, <2>1 DEF RegionIs
    <2>3. r \in ElfRegion
        BY <1>9, <1>11 DEF ElfRegion
    <2> QED BY <2>1, <2>2, <2>3
<1>13. PICK d : d = l.pd
    OBVIOUS
<1>14. E!alloc_pt(l.pd, r.va, r.pa, r.len) = Entered(d, v, a, sp)
    BY <1>12, <1>13, PagesEntered
<1>15. rg \in Seq(ElfRegion) /\ Ramlike(m) /\ Targets(nx)
    BY DEF ElfState
<1>16. PICK s : s = <<r>> \o rg /\ s \in Seq(ElfRegion) /\ Describes(Entered(d, v, a, sp), s)
    <2>1. Describes(d, rg)
        BY <1>2, <1>13
    <2>2. Describes(Entered(d, v, a, sp), <<r>> \o rg)
        BY <1>12, <1>15, <2>1, DescribesMore
    <2>3. <<r>> \o rg \in Seq(ElfRegion)
        BY <1>12, <1>15, NewestFirst
    <2> QED BY <2>2, <2>3
<1>17. nx \in Nat /\ sz \in Nat /\ nx = bb + sz
    BY <1>2, <1>10, <1>15, PageFacts DEF Targets
<1>18. bb <= g
    BY <1>2, <1>10, PageFacts, TimesOrder
<1>19. ASSUME E!PageDisjoint(f) PROVE g + ss <= nx /\ RegionsIn(rg, bb, g + ElfPage)
    <2>1. a <= b0 + Cardinality(Taken(f, i)) /\ RegionsIn(rg, bb, g + ElfPage)
        BY <1>1, <1>2, <1>3, <1>5, <1>10, <1>19 DEF LoadAt
    <2>2. Cardinality(Taken(f, i)) \in Nat /\ Cardinality(Taken(f, i)) + sp <= z
        <3>1. i \in 1..(Len(f.ph) + 1) /\ Holds(f, z)
            BY <1>2, <1>3, <1>4, <1>5
        <3> QED BY <1>5, <1>7, <3>1, TakenHeld
    <2>3. a + sp <= b0 + z
        BY <2>1, <2>2
    <2>4. ElfPage * (a + sp) <= ElfPage * (b0 + z)
        BY <2>3, PageFacts, TimesOrder
    <2>5. ElfPage * (a + sp) = g + ss /\ ElfPage * (b0 + z) = bb + sz
        BY <1>2, <1>7, <1>10, PageFacts, TimesAdd
    <2> QED BY <1>17, <2>1, <2>4, <2>5
<1>20. ElfPage <= ss
    <2>1. ElfPage * 1 <= ElfPage * sp /\ ElfPage * 1 = ElfPage
        <3>1. 1 <= sp
            BY <1>7
        <3> QED BY <3>1, PageFacts, TimesOrder
    <2> QED BY <1>7, <2>1
<1>21. InSize(f, s, sz)
    <2>1. ASSUME E!PageDisjoint(f), NEW x \in DOMAIN s
          PROVE  bb <= s[x].pa /\ s[x].pa + s[x].len <= nx /\ s[x].pa \in Nat /\ s[x].len \in Nat
        <3>1. /\ DOMAIN s = 1..(Len(rg) + 1) /\ s[1] = r
              /\ \A j \in 2..(Len(rg) + 1) : j - 1 \in 1..Len(rg) /\ s[j] = rg[j - 1]
            BY <1>12, <1>15, <1>16, NewestFirst
        <3>2. Len(rg) \in Nat /\ DOMAIN rg = 1..Len(rg)
            BY <1>15
        <3>3. CASE x = 1
            BY <1>12, <1>18, <1>19, <2>1, <3>1, <3>3
        <3>4. CASE x # 1
            <4>1. x \in 2..(Len(rg) + 1)
                BY <3>1, <3>2, <3>4
            <4>2. x - 1 \in DOMAIN rg /\ s[x] = rg[x - 1]
                BY <3>1, <3>2, <4>1
            <4>3. PICK pa \in Nat, len \in Nat : pa = s[x].pa /\ len = s[x].len
                <5>1. rg[x - 1] \in ElfRegion
                    BY <1>15, <3>2, <4>2
                <5> QED BY <4>2, <5>1 DEF ElfRegion
            <4>4. bb <= pa /\ pa + len <= g + ElfPage
                BY <1>19, <2>1, <4>2, <4>3 DEF RegionsIn
            <4>5. g + ElfPage <= nx
                BY <1>17, <1>19, <1>20, <2>1, PageFacts
            <4> QED BY <1>17, <4>3, <4>4, <4>5, PageFacts
        <3> QED BY <3>3, <3>4
    <2>2. ASSUME E!PageDisjoint(f), NEW x \in DOMAIN s, NEW y \in DOMAIN s
          PROVE  s[x].pa + s[x].len - s[y].pa <= sz
        <3>1. PICK p \in Nat, q \in Nat, p2 \in Nat : /\ p = s[x].pa /\ q = s[x].len /\ p2 = s[y].pa
                                                     /\ p + q <= nx /\ bb <= p2
            BY <2>1, <2>2
        <3>2. p + q - p2 <= sz
            BY <1>17, <3>1
        <3> QED BY <3>1, <3>2
    <2> QED BY <2>2 DEF InSize
<1>22. PICK c : c = [cr3 |-> Entered(d, v, a, sp), base |-> l.max] /\ c.cr3 = Entered(d, v, a, sp) /\ c.base = l.max
    <2>1. PICK e : e = Entered(d, v, a, sp)
        OBVIOUS
    <2>2. PICK c : c = [cr3 |-> e, base |-> l.max]
        OBVIOUS
    <2>3. c.cr3 = e /\ c.base = l.max
        BY <2>2
    <2> QED BY <2>1, <2>2, <2>3
<1>23. ASSUME Good(f) PROVE HasSegs(m, c.cr3, f, Len(f.ph) + 1, nx) /\ HasStack(m, c.cr3, nx)
    <2>1. E!PageDisjoint(f)
        BY <1>23 DEF Good
    <2>2. g + ss <= nx
        BY <1>19, <2>1
    <2>3. ClearFrom(m, g, nx) /\ HasSegs(m, d, f, i, g)
        BY <1>1, <1>2, <1>3, <1>5, <1>10, <1>13, <1>23 DEF LoadAt
    <2>4. ClearFrom(m, g, g + ElfStack)
        BY <1>7, <1>17, <2>2, <2>3 DEF ClearFrom
    <2>5. HasStack(m, Entered(d, v, a, sp), g + ElfStack)
        BY <1>6, <1>8, <1>10, <2>4, StackLoaded
    <2>6. \A x : AlikeBelow(m, m, x)
        BY DEF AlikeBelow
    <2>7. HasStack(m, Entered(d, v, a, sp), nx)
        <3>1. g + ElfStack \in Nat /\ g + ElfStack <= nx
            BY <1>7, <2>2
        <3> QED BY <1>17, <2>5, <2>6, <3>1, StackStays
    <2>8. ASSUME NEW j \in E!Program(f), j < i
          PROVE  HasSeg(m, Entered(d, v, a, sp), f.ph[j], f.bytes, nx)
        <3>1. HasSeg(m, d, f.ph[j], f.bytes, g)
            BY <2>3, <2>8 DEF HasSegs
        <3>2. IsHeader(f.ph[j])
            BY <1>5, Headers DEF E!Program
        <3>3. E!PagesOf(f.ph[j]) \cap v..(v + sp - 1) = {}
            BY <1>6, <1>8, <3>2, BelowStack
        <3>4. g <= nx
            BY <1>17, <2>2
        <3> QED BY <1>17, <2>6, <3>1, <3>2, <3>3, <3>4, SegKept
    <2>9. HasSegs(m, Entered(d, v, a, sp), f, i, nx)
        BY <2>8 DEF HasSegs
    <2> QED BY <1>4, <1>22, <2>7, <2>9
<1>24. RunsInv(f, f.entry, c, m, nx)
    BY <1>2, <1>3, <1>5, <1>22, <1>23 DEF RunsInv
<1>25. ElfState(m, nx, s, sz, f.entry, c, f, "user", l2)
    BY <1>15, <1>16, <1>21, <1>22, <1>24 DEF ElfState, Floor
<1> QED BY <1>3, <1>14, <1>16, <1>22, <1>25
-----------------------------------------------------------------------------
(***************************************************************************)
(* The invariant of Elf and its steps.                                     *)
(***************************************************************************)
ElfInv == ElfState(phys, next, eregions, ememsz, eip, cur, eimage, at, loc)

ElfStep == ElfState(phys', next', eregions', ememsz', eip', cur', eimage', at', loc')

(***************************************************************************)
(* No process runs and none is loaded at the start.                        *)
(***************************************************************************)
LEMMA ElfBegins ==
    ASSUME E!Init
    PROVE  ElfInv
<1>1. /\ phys = [a \in 0..(Ram - 1) |-> E!Junk] /\ next = 0
      /\ eregions = <<>> /\ cur = [cr3 |-> <<>>, base |-> 0] /\ eimage = E!None /\ at = "user"
    BY DEF E!Init
<1>2. Ramlike(phys)
    BY <1>1 DEF Ramlike
<1>3. Targets(next)
    <2>1. 0 = ElfPage * 0
        BY PageFacts
    <2> QED BY <1>1, <2>1, PageFacts DEF Targets
<1>4. Describes(cur.cr3, eregions)
    BY <1>1 DEF Describes
<1>5. eregions \in Seq(ElfRegion)
    BY <1>1
<1>6. InSize(eimage, eregions, ememsz) /\ RunsInv(eimage, eip, cur, phys, Floor(at, next, ememsz))
    BY <1>1 DEF InSize, RunsInv
<1> QED BY <1>1, <1>2, <1>3, <1>4, <1>5, <1>6 DEF ElfInv, ElfState

(***************************************************************************)
(* Before the first header the scan has found no bounds.                   *)
(***************************************************************************)
LEMMA FirstScan ==
    ASSUME NEW f \in Execs
    PROVE  ScanInv([f |-> f, i |-> 1, min |-> Word - 1, max |-> 0, pd |-> <<>>, mem |-> 0])
<1>1. PICK l : l = [f |-> f, i |-> 1, min |-> Word - 1, max |-> 0, pd |-> <<>>, mem |-> 0]
    OBVIOUS
<1>2. l.f = f /\ l.i = 1 /\ l.min = Word - 1 /\ l.max = 0 /\ l.pd = <<>> /\ l.mem = 0
    BY <1>1
<1>3. Len(f.ph) \in Nat /\ \A j \in E!Program(f) : j \in 1..Len(f.ph)
    BY Headers DEF E!Program
<1>4. \A j \in E!Program(f) : ~(j < 1)
    BY <1>3
<1>5. Found(f, 1, Word - 1, 0)
    BY <1>4 DEF Found
<1>6. IsLoc(l)
    <2>1. 1 \in 1..(Len(f.ph) + 1)
        BY <1>3
    <2> QED BY <1>1, <1>2, <2>1 DEF IsLoc
<1>7. ScanInv(l)
    BY <1>2, <1>5, <1>6 DEF ScanInv
<1> QED BY <1>1, <1>7

(***************************************************************************)
(* The begin of a call keeps the invariant, and so does one for a file     *)
(* that is not there.                                                      *)
(***************************************************************************)
LEMMA CallKeepsElf ==
    ASSUME ElfInv, E!Call \/ E!NotFound
    PROVE  ElfStep
<1>1. at = "user" /\ eregions \in Seq(ElfRegion)
    BY DEF E!Call, E!NotFound, ElfInv, ElfState
<1>2. /\ phys' = phys /\ next' = next /\ eregions' = eregions /\ ememsz' = ememsz
      /\ eip' = eip /\ cur' = cur /\ eimage' = eimage
    BY DEF E!Call, E!NotFound, E!Open, E!Shared
<1>3. at' \in {"user", "scan", "assert", "fault"} /\ (at' = "scan" => ScanInv(loc'))
    <2>1. CASE E!NotFound
        BY <2>1 DEF E!NotFound, E!Fails
    <2>2. CASE E!Call
        <3>1. PICK f \in IF eimage = E!None THEN {InitFile} ELSE Execs : E!Open(f)
            BY <2>2 DEF E!Call
        <3>2. f \in Execs
            BY <3>1, LoaderAssumption DEF E!ElfAssumption
        <3>3. CASE f.size = 0
            BY <3>1, <3>3 DEF E!Open
        <3>4. CASE f.size # 0 /\ ~f.magic
            BY <3>1, <3>4 DEF E!Open, E!Fails
        <3>5. CASE f.size # 0 /\ f.magic
            <4>1. /\ at' = "scan"
                  /\ loc' = [f |-> f, i |-> 1, min |-> Word - 1, max |-> 0, pd |-> <<>>, mem |-> 0]
                BY <3>1, <3>5 DEF E!Open
            <4> QED BY <3>2, <4>1, FirstScan
        <3> QED BY <3>3, <3>4, <3>5
    <2> QED BY <2>1, <2>2
<1>4. ElfState(phys, next, eregions, ememsz, eip, cur, eimage, at', loc')
    BY <1>1, <1>3, PlaceTaken DEF ElfInv
<1> QED BY <1>2, <1>4 DEF ElfStep

(***************************************************************************)
(* A turn of the first loop over the headers keeps the invariant.          *)
(***************************************************************************)
LEMMA ScanKeeps ==
    ASSUME ElfInv, E!ScanTurn
    PROVE  ElfStep
<1>1. PICK h : h = loc.f.ph[loc.i]
    OBVIOUS
<1>2. /\ at = "scan" /\ loc.i <= Len(loc.f.ph)
      /\ phys' = phys /\ next' = next /\ eregions' = eregions /\ ememsz' = ememsz
      /\ eip' = eip /\ cur' = cur /\ eimage' = eimage
    BY DEF E!ScanTurn, E!Shared
<1>3. PICK l : l = loc /\ ScanInv(l) /\ eregions \in Seq(ElfRegion)
    BY <1>2 DEF ElfInv, ElfState
<1>4. l.f \in Execs /\ l.i \in 1..Len(l.f.ph) /\ Len(l.f.ph) \in Nat /\ l.i \in DOMAIN l.f.ph
    <2>1. l.f \in Execs /\ l.i \in 1..(Len(l.f.ph) + 1)
        BY <1>3 DEF ScanInv, IsLoc
    <2>2. Len(l.f.ph) \in Nat /\ DOMAIN l.f.ph = 1..Len(l.f.ph)
        BY <2>1, Headers
    <2> QED BY <1>2, <1>3, <2>1, <2>2
<1>5. l = [f |-> l.f, i |-> l.i, min |-> l.min, max |-> l.max, pd |-> l.pd, mem |-> l.mem]
    BY <1>3 DEF ScanInv, IsLoc
<1>6. l.i + 1 \in 1..(Len(l.f.ph) + 1) /\ Found(l.f, l.i, l.min, l.max) /\ l.pd = <<>>
    BY <1>3, <1>4 DEF ScanInv
<1>7. at' \in {"user", "scan", "assert", "fault"} /\ (at' = "scan" => ScanInv(loc'))
    <2>1. CASE h.type \in {E!PT_DYNAMIC, E!PT_INTERP}
        BY <1>1, <2>1 DEF E!ScanTurn, E!Fails
    <2>2. CASE h.type \notin {E!PT_DYNAMIC, E!PT_INTERP} /\ h.type # E!PT_LOAD
        <3>1. at' = "scan" /\ loc' = [l EXCEPT !.i = @ + 1]
            BY <1>1, <1>2, <1>3, <2>2 DEF E!ScanTurn
        <3>2. loc' = [f |-> l.f, i |-> l.i + 1, min |-> l.min, max |-> l.max, pd |-> l.pd, mem |-> l.mem]
            BY <1>5, <3>1
        <3>3. PICK k : k = loc'
            OBVIOUS
        <3>4. /\ k = [f |-> k.f, i |-> k.i, min |-> k.min, max |-> k.max, pd |-> k.pd, mem |-> k.mem]
              /\ k.f = l.f /\ k.i = l.i + 1 /\ k.min = l.min /\ k.max = l.max /\ k.pd = <<>>
            BY <1>6, <3>2, <3>3
        <3>5. Found(l.f, l.i + 1, l.min, l.max)
            BY <1>1, <1>3, <1>4, <1>6, <2>2, FoundNext
        <3>6. ScanInv(k)
            BY <1>4, <1>6, <3>4, <3>5 DEF ScanInv, IsLoc
        <3> QED BY <3>1, <3>3, <3>6
    <2>3. CASE h.type \notin {E!PT_DYNAMIC, E!PT_INTERP} /\ h.type = E!PT_LOAD
        <3>0. PICK start, end : start = E!rounddown(h.va) /\ end = E!roundup((h.va + h.memsz) % Word)
            OBVIOUS
        <3>1. /\ at' = "scan"
              /\ loc' = [l EXCEPT !.i = @ + 1, !.min = IF start < @ THEN start ELSE @, !.max = E!Higher(@, end)]
            BY <1>1, <1>2, <1>3, <2>3, <3>0 DEF E!ScanTurn
        <3>2. loc' = [f |-> l.f, i |-> l.i + 1, min |-> IF start < l.min THEN start ELSE l.min,
                      max |-> E!Higher(l.max, end), pd |-> l.pd, mem |-> l.mem]
            BY <1>5, <3>1
        <3>3. PICK k : k = loc'
            OBVIOUS
        <3>4. /\ k = [f |-> k.f, i |-> k.i, min |-> k.min, max |-> k.max, pd |-> k.pd, mem |-> k.mem]
              /\ k.f = l.f /\ k.i = l.i + 1 /\ k.min = (IF start < l.min THEN start ELSE l.min)
              /\ k.max = E!Higher(l.max, end) /\ k.pd = <<>>
            BY <1>6, <3>2, <3>3
        <3>5. Found(l.f, l.i + 1, IF start < l.min THEN start ELSE l.min, E!Higher(l.max, end))
            BY <1>1, <1>3, <1>4, <1>6, <2>3, <3>0, FoundMore
        <3>6. ScanInv(k)
            BY <1>4, <1>6, <3>4, <3>5 DEF ScanInv, IsLoc
        <3> QED BY <3>1, <3>3, <3>6
    <2> QED BY <2>1, <2>2, <2>3
<1>8. ElfState(phys, next, eregions, ememsz, eip, cur, eimage, at', loc')
    BY <1>2, <1>3, <1>7, PlaceTaken DEF ElfInv
<1> QED BY <1>2, <1>8 DEF ElfStep

(***************************************************************************)
(* Allocating the pages keeps the invariant, and so does the fault when    *)
(* memory is too small for them.                                           *)
(***************************************************************************)
LEMMA AllocateKeeps ==
    ASSUME ElfInv, E!Allocate
    PROVE  ElfStep
<1>1. PICK s : s = E!Size(loc)
    OBVIOUS
<1>2. /\ at = "scan" /\ loc.i > Len(loc.f.ph) /\ eregions' = <<>>
      /\ eip' = eip /\ cur' = cur /\ eimage' = eimage
    BY DEF E!Allocate
<1>3. CASE next + s > Ram
    <2>1. at' = "fault" /\ phys' = phys /\ next' = next /\ ememsz' = ememsz
        BY <1>1, <1>3 DEF E!Allocate
    <2>2. <<>> \in Seq(ElfRegion)
        OBVIOUS
    <2>3. ElfState(phys, next, <<>>, ememsz, eip, cur, eimage, "fault", loc')
        BY <1>2, <2>2, PlaceTaken DEF ElfInv
    <2> QED BY <1>2, <2>1, <2>3 DEF ElfStep
<1>4. CASE ~(next + s > Ram)
    <2>1. /\ at' = "load" /\ phys' = E!Cleared(phys, next, s) /\ next' = next + s /\ ememsz' = s
          /\ loc' = [loc EXCEPT !.i = 1, !.mem = next]
        BY <1>1, <1>4 DEF E!Allocate
    <2>2. next + s <= Ram
        <3>1. next \in Nat
            BY DEF ElfInv, ElfState, Targets
        <3>2. s \in Nat
            <4>1. ScanInv(loc)
                BY <1>2 DEF ElfInv, ElfState
            <4>2. loc.f \in Execs /\ Found(loc.f, loc.i, loc.min, loc.max) /\ loc.i \in 1..(Len(loc.f.ph) + 1)
                BY <4>1 DEF ScanInv, IsLoc
            <4>3. loc.i = Len(loc.f.ph) + 1
                <5>1. Len(loc.f.ph) \in Nat
                    BY <4>2, Headers
                <5> QED BY <1>2, <4>2, <5>1
            <4>4. PICK z \in Nat : E!Size(loc) = ElfPage * z
                BY <4>2, <4>3, SizeHolds
            <4> QED BY <1>1, <4>4, PageFacts
        <3> QED BY <1>4, <3>1, <3>2, PageFacts
    <2>3. ElfState(phys, next, eregions, ememsz, eip, cur, eimage, "scan", loc)
        BY <1>2 DEF ElfInv
    <2>4. ElfState(E!Cleared(phys, next, s), next + s, <<>>, s, eip, cur, eimage, "load",
                   [loc EXCEPT !.i = 1, !.mem = next])
        BY <1>1, <1>2, <2>2, <2>3, AllocateStep
    <2> QED BY <1>2, <2>1, <2>4 DEF ElfStep
<1> QED BY <1>3, <1>4

(***************************************************************************)
(* A turn of the second loop over the headers keeps the invariant.         *)
(***************************************************************************)
LEMMA LoadKeeps ==
    ASSUME ElfInv, E!LoadTurn
    PROVE  ElfStep
<1>1. PICK h : h = loc.f.ph[loc.i]
    OBVIOUS
<1>2. PICK r : r = E!Region(h, loc.mem)
    OBVIOUS
<1>3. /\ at = "load" /\ at' = "load" /\ loc.i <= Len(loc.f.ph)
      /\ next' = next /\ ememsz' = ememsz /\ eip' = eip /\ cur' = cur /\ eimage' = eimage
    BY DEF E!LoadTurn
<1>4. ElfState(phys, next, eregions, ememsz, eip, cur, eimage, "load", loc)
    BY <1>3 DEF ElfInv
<1>5. CASE h.type # E!PT_LOAD
    <2>1. loc' = [loc EXCEPT !.i = @ + 1] /\ phys' = phys /\ eregions' = eregions
        BY <1>1, <1>5 DEF E!LoadTurn
    <2>2. ElfState(phys, next, eregions, ememsz, eip, cur, eimage, "load", [loc EXCEPT !.i = @ + 1])
        BY <1>1, <1>3, <1>4, <1>5, LoadSkip
    <2> QED BY <1>3, <2>1, <2>2 DEF ElfStep
<1>6. CASE h.type = E!PT_LOAD
    <2>1. /\ eregions' = <<r>> \o eregions
          /\ phys' = E!CopySegment(phys, h, loc.mem, loc.f.bytes)
          /\ loc' = [loc EXCEPT !.i = @ + 1, !.pd = E!alloc_pt(@, r.va, r.pa, r.len),
                                !.mem = @ + E!roundup(h.memsz)]
        BY <1>1, <1>2, <1>6 DEF E!LoadTurn
    <2>2. ElfState(E!CopySegment(phys, h, loc.mem, loc.f.bytes), next, <<r>> \o eregions, ememsz, eip, cur,
                   eimage, "load",
                   [loc EXCEPT !.i = @ + 1, !.pd = E!alloc_pt(@, r.va, r.pa, r.len),
                               !.mem = @ + E!roundup(h.memsz)])
        BY <1>1, <1>2, <1>3, <1>4, <1>6, LoadStep
    <2> QED BY <1>3, <2>1, <2>2 DEF ElfStep
<1> QED BY <1>5, <1>6

(***************************************************************************)
(* The end of the call keeps the invariant.                                *)
(***************************************************************************)
LEMMA FinishKeeps ==
    ASSUME ElfInv, E!Finish
    PROVE  ElfStep
<1>1. PICK r : r = [va |-> ElfKernel - ElfStack, pa |-> loc.mem, len |-> ElfStack]
    OBVIOUS
<1>2. /\ at = "load" /\ at' = "user" /\ loc.i > Len(loc.f.ph)
      /\ eregions' = <<r>> \o eregions /\ eip' = loc.f.entry
      /\ cur' = [cr3 |-> E!alloc_pt(loc.pd, r.va, r.pa, r.len), base |-> loc.max]
      /\ eimage' = loc.f /\ phys' = phys /\ next' = next /\ ememsz' = ememsz
    BY <1>1 DEF E!Finish
<1>3. ElfState(phys, next, eregions, ememsz, eip, cur, eimage, "load", loc)
    BY <1>2 DEF ElfInv
<1>4. ElfState(phys, next, <<r>> \o eregions, ememsz, loc.f.entry,
               [cr3 |-> E!alloc_pt(loc.pd, r.va, r.pa, r.len), base |-> loc.max], loc.f, "user", loc')
    BY <1>1, <1>2, <1>3, FinishStep
<1> QED BY <1>2, <1>4 DEF ElfStep

(***************************************************************************)
(* Every step of loadelf keeps the invariant.                              *)
(***************************************************************************)
LEMMA ElfKeeps == ElfInv /\ [E!Next]_E!vars => ElfInv'
<1> SUFFICES ASSUME ElfInv, [E!Next]_E!vars PROVE ElfInv'
    OBVIOUS
<1>1. CASE E!Done \/ UNCHANGED E!vars
    BY <1>1 DEF E!Done, E!vars, ElfInv
<1>2. ASSUME ElfStep PROVE ElfInv'
    BY <1>2 DEF ElfStep, ElfInv
<1>3. CASE E!Call \/ E!NotFound
    BY <1>2, <1>3, CallKeepsElf
<1>4. CASE E!ScanTurn
    BY <1>2, <1>4, ScanKeeps
<1>5. CASE E!Allocate
    BY <1>2, <1>5, AllocateKeeps
<1>6. CASE E!LoadTurn
    BY <1>2, <1>6, LoadKeeps
<1>7. CASE E!Finish
    BY <1>2, <1>7, FinishKeeps
<1> QED BY <1>1, <1>3, <1>4, <1>5, <1>6, <1>7 DEF E!Next

(***************************************************************************)
(* loadelf, sys_execve and initsys, for any executables a linker makes,    *)
(* any page size and any memory: a process always reads the image of its   *)
(* last successful execve, also while the next one is being loaded or has  *)
(* failed, whenever no page of the image belongs to two segments and none  *)
(* reaches beyond its size.                                                *)
(***************************************************************************)
THEOREM RunsImageAlways == E!Spec => []RunsImage
<1>1. ElfInv => RunsImage
    <2> SUFFICES ASSUME ElfInv, eimage # E!None, E!PageDisjoint(eimage), E!StaysInSize(eimage)
                 PROVE  /\ eip = eimage.entry
                        /\ \A j \in E!Program(eimage) :
                              LET h == eimage.ph[j]
                              IN  \A b \in 0..(h.memsz - 1) :
                                     E!Reads(h.va + b) = IF b < h.filesz THEN eimage.bytes[h.off + b + 1] ELSE 0
                        /\ \A a \in (ElfKernel - ElfStack)..(ElfKernel - 1) : E!Reads(a) = 0
        BY DEF RunsImage, E!RunsImage
    <2>1. PICK top : RunsInv(eimage, eip, cur, phys, top)
        BY DEF ElfInv, ElfState
    <2>2. /\ eimage \in Execs /\ eip = eimage.entry
          /\ HasSegs(phys, cur.cr3, eimage, Len(eimage.ph) + 1, top) /\ HasStack(phys, cur.cr3, top)
        BY <2>1 DEF RunsInv, Good
    <2>3. ASSUME NEW b, NEW c, HasByte(phys, cur.cr3, b, top, c) PROVE E!Reads(b) = c
        BY <2>3 DEF HasByte, E!Reads
    <2>4. ASSUME NEW j \in E!Program(eimage), NEW h, h = eimage.ph[j], NEW b \in 0..(h.memsz - 1)
          PROVE  E!Reads(h.va + b) = IF b < h.filesz THEN eimage.bytes[h.off + b + 1] ELSE 0
        <3>1. j < Len(eimage.ph) + 1
            <4>1. Len(eimage.ph) \in Nat /\ j \in 1..Len(eimage.ph)
                BY <2>2, Headers DEF E!Program
            <4> QED BY <4>1
        <3>2. HasSeg(phys, cur.cr3, h, eimage.bytes, top)
            BY <2>2, <2>4, <3>1 DEF HasSegs
        <3>3. HasByte(phys, cur.cr3, h.va + b, top, IF b < h.filesz THEN eimage.bytes[h.off + b + 1] ELSE 0)
            BY <3>2 DEF HasSeg
        <3> QED BY <2>3, <3>3
    <2>5. ASSUME NEW a \in (ElfKernel - ElfStack)..(ElfKernel - 1) PROVE E!Reads(a) = 0
        <3>1. HasByte(phys, cur.cr3, a, top, 0)
            BY <2>2 DEF HasStack
        <3> QED BY <2>3, <3>1
    <2> QED BY <2>2, <2>4, <2>5
<1> QED BY <1>1, ElfBegins, ElfKeeps, PTL DEF E!Spec

(***************************************************************************)
(* loadelf: whenever a process runs, the region list, its size and         *)
(* mmap_base, by which sys_fork and sys_mmap go, describe the directory it *)
(* runs on, also after an execve that failed.                              *)
(***************************************************************************)
THEOREM DescribedAlways == E!Spec => []Described
<1>1. ElfInv => Described
    <2> SUFFICES ASSUME ElfInv PROVE Described
        OBVIOUS
    <2>1. E!ListDescribes
        <3>1. at = "user" => Describes(cur.cr3, eregions)
            BY DEF ElfInv, ElfState
        <3> QED BY <3>1 DEF E!ListDescribes, Describes
    <2>2. E!WithinSize
        <3>1. at = "user" => InSize(eimage, eregions, ememsz)
            BY DEF ElfInv, ElfState
        <3> QED BY <3>1 DEF E!WithinSize, InSize
    <2>3. E!RoomAbove
        <3>1. eimage # E!None => SegsEndBelow(eimage, cur.base)
            BY DEF ElfInv, ElfState, RunsInv
        <3> QED BY <3>1 DEF E!RoomAbove, SegsEndBelow
    <2> QED BY <2>1, <2>2, <2>3 DEF Described, E!Described
<1> QED BY <1>1, ElfBegins, ElfKeeps, PTL DEF E!Spec
=============================================================================
