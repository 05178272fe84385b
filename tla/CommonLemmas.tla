---------------------------- MODULE CommonLemmas ----------------------------
(***************************************************************************)
(* What the proofs of several components need: what removing from and      *)
(* inserting into a linked list of sys/queue.h does to the sequence of its *)
(* elements, induction over natural numbers in a form the provers can use, *)
(* loops that run a number of times, arithmetic with quotients, and what   *)
(* itoa of the kernel and of libc prints: powers, digits and numerals.     *)
(***************************************************************************)
EXTENDS Integers, SequencesExt, SequenceTheorems, WellFoundedInduction, TLAPS

(***************************************************************************)
(* Removing element i: the others keep their order.                        *)
(***************************************************************************)
LEMMA RemoveAtElements ==
    ASSUME NEW S, NEW q \in Seq(S), NEW i \in DOMAIN q
    PROVE  /\ RemoveAt(q, i) \in Seq(S)
           /\ Len(RemoveAt(q, i)) = Len(q) - 1
           /\ \A j \in 1..(Len(q) - 1) :
                 RemoveAt(q, i)[j] = IF j < i THEN q[j] ELSE q[j + 1]
<1> DEFINE a == SubSeq(q, 1, i - 1)
           b == SubSeq(q, i + 1, Len(q))
<1>1. i \in 1..Len(q) /\ Len(q) \in Nat /\ \A j \in 1..Len(q) : q[j] \in S
    OBVIOUS
<1>2. /\ a \in Seq(S)
      /\ Len(a) = i - 1
      /\ \A j \in 1..(i - 1) : a[j] = q[j]
    BY <1>1, SubSeqProperties
<1>3. /\ b \in Seq(S)
      /\ Len(b) = Len(q) - i
      /\ \A j \in 1..(Len(q) - i) : b[j] = q[i + j]
    BY <1>1, SubSeqProperties
<1> HIDE DEF a, b
<1>4. /\ a \o b \in Seq(S)
      /\ Len(a \o b) = Len(a) + Len(b)
      /\ \A j \in 1..(Len(a) + Len(b)) :
            (a \o b)[j] = IF j <= Len(a) THEN a[j] ELSE b[j - Len(a)]
    BY <1>2, <1>3, ConcatProperties
<1>5. ASSUME NEW j \in 1..(Len(q) - 1)
      PROVE  (a \o b)[j] = IF j < i THEN q[j] ELSE q[j + 1]
    <2>0. /\ i \in Int /\ j \in Int /\ Len(q) \in Int
          /\ 1 <= j /\ j <= Len(q) - 1 /\ 1 <= i /\ i <= Len(q)
        BY <1>1
    <2>1. (a \o b)[j] = IF j <= i - 1 THEN a[j] ELSE b[j - (i - 1)]
        <3>1. Len(a) + Len(b) = Len(q) - 1
            BY <2>0, <1>2, <1>3
        <3> QED BY <1>2, <1>4, <3>1
    <2>2. CASE j < i
        <3>1. j \in 1..(i - 1) /\ j <= i - 1
            BY <2>0, <2>2
        <3> QED BY <1>2, <2>1, <2>2, <3>1
    <2>3. CASE ~(j < i)
        <3>1. /\ ~(j <= i - 1)
              /\ (j - (i - 1)) \in 1..(Len(q) - i)
              /\ i + (j - (i - 1)) = j + 1
            BY <2>0, <2>3
        <3>2. b[j - (i - 1)] = q[j + 1]
            BY <1>3, <3>1
        <3> QED BY <2>1, <2>3, <3>1, <3>2
    <2> QED BY <2>2, <2>3
<1>6. RemoveAt(q, i) = a \o b
    BY DEF RemoveAt, a, b
<1>7. Len(a \o b) = Len(q) - 1
    BY <1>1, <1>2, <1>3, <1>4
<1> QED BY <1>4, <1>5, <1>6, <1>7

(***************************************************************************)
(* Inserting e as element i: those from i on move back by one.             *)
(***************************************************************************)
LEMMA InsertAtElements ==
    ASSUME NEW S, NEW q \in Seq(S), NEW i \in 1..(Len(q) + 1), NEW e \in S
    PROVE  /\ InsertAt(q, i, e) \in Seq(S)
           /\ Len(InsertAt(q, i, e)) = Len(q) + 1
           /\ \A j \in 1..(i - 1) : InsertAt(q, i, e)[j] = q[j]
           /\ InsertAt(q, i, e)[i] = e
           /\ \A j \in i..Len(q) : InsertAt(q, i, e)[j + 1] = q[j]
<1> DEFINE a == SubSeq(q, 1, i - 1)
           b == SubSeq(q, i, Len(q))
           c == a \o <<e>>
           r == c \o b
<1>1. /\ i \in Int /\ Len(q) \in Int /\ 1 <= i /\ i <= Len(q) + 1
      /\ \A j \in 1..Len(q) : q[j] \in S
    OBVIOUS
<1>2. /\ a \in Seq(S)
      /\ Len(a) = i - 1
      /\ \A j \in 1..(i - 1) : a[j] = q[j]
    BY <1>1, SubSeqProperties
<1>3. /\ b \in Seq(S)
      /\ Len(b) = Len(q) - i + 1
      /\ \A j \in 1..(Len(q) - i + 1) : b[j] = q[i + j - 1]
    BY <1>1, SubSeqProperties
<1> HIDE DEF a, b
<1>4. /\ c \in Seq(S)
      /\ Len(c) = i
      /\ \A j \in 1..(i - 1) : c[j] = q[j]
      /\ c[i] = e
    <2>1. <<e>> \in Seq(S) /\ Len(<<e>>) = 1 /\ <<e>>[1] = e
        OBVIOUS
    <2>2. /\ c \in Seq(S) /\ Len(c) = i - 1 + 1
          /\ \A j \in 1..(i - 1 + 1) :
                c[j] = IF j <= i - 1 THEN a[j] ELSE <<e>>[j - (i - 1)]
        BY <1>2, <2>1, ConcatProperties
    <2>3. \A j \in 1..(i - 1) : j \in 1..(i - 1 + 1) /\ j <= i - 1
        BY <1>1
    <2>4. i \in 1..(i - 1 + 1) /\ ~(i <= i - 1) /\ i - (i - 1) = 1
        BY <1>1
    <2>5. c[i] = e
        BY <2>1, <2>2, <2>4
    <2>6. \A j \in 1..(i - 1) : c[j] = q[j]
        BY <1>2, <2>2, <2>3
    <2>7. i - 1 + 1 = i
        BY <1>1
    <2> HIDE DEF c
    <2> QED BY <2>2, <2>5, <2>6, <2>7
<1> HIDE DEF c
<1>5. /\ r \in Seq(S)
      /\ Len(r) = i + (Len(q) - i + 1)
      /\ \A j \in 1..(i + (Len(q) - i + 1)) :
            r[j] = IF j <= i THEN c[j] ELSE b[j - i]
    BY <1>3, <1>4, ConcatProperties
<1>6. i + (Len(q) - i + 1) = Len(q) + 1
    BY <1>1
<1>7. r[i] = e /\ \A j \in 1..(i - 1) : r[j] = q[j]
    BY <1>1, <1>4, <1>5, <1>6
<1>8. ASSUME NEW j \in i..Len(q) PROVE r[j + 1] = q[j]
    <2>1. /\ (j + 1) \in 1..(Len(q) + 1) /\ ~(j + 1 <= i)
          /\ (j + 1 - i) \in 1..(Len(q) - i + 1) /\ i + (j + 1 - i) - 1 = j
        BY <1>1
    <2>2. r[j + 1] = b[j + 1 - i]
        BY <1>5, <1>6, <2>1
    <2> QED BY <1>3, <2>1, <2>2
<1>9. InsertAt(q, i, e) = r
    BY DEF InsertAt, a, b, c
<1> HIDE DEF r
<1> QED BY <1>5, <1>6, <1>7, <1>8, <1>9

-----------------------------------------------------------------------------
(***************************************************************************)
(* Induction over the natural numbers, for sets: a set of them that is not *)
(* empty has a least element.                                              *)
(***************************************************************************)
LEMMA NatMin ==
    ASSUME NEW T \in SUBSET Nat, T # {}
    PROVE  \E n \in T : \A m \in T : n <= m
<1> DEFINE R == OpToRel(<, Nat)
<1>1. IsWellFoundedOn(R, Nat)
    BY NatLessThanWellFounded
<1>2. \A m \in Nat, n \in Nat : m < n => <<m, n>> \in R
    BY DEF OpToRel
<1> HIDE DEF R
<1>3. PICK n \in T : \A m \in T : ~(<<m, n>> \in R)
    BY <1>1, WFMin
<1>4. \A m \in T : ~(m < n)
    BY <1>2, <1>3
<1>5. \A m \in T : n <= m
    BY <1>4
<1> QED BY <1>5

(***************************************************************************)
(* A set of natural numbers that has 0 and with every number its successor *)
(* is all of them.                                                         *)
(***************************************************************************)
LEMMA NatInd ==
    ASSUME NEW T \in SUBSET Nat, 0 \in T, \A n \in T : n + 1 \in T
    PROVE  T = Nat
<1> SUFFICES ASSUME T # Nat PROVE FALSE
    OBVIOUS
<1>1. PICK n \in Nat \ T : \A m \in Nat \ T : n <= m
    BY NatMin
<1>2. n # 0 /\ (n - 1) \in Nat
    BY <1>1
<1>3. (n - 1) \in T
    BY <1>1, <1>2
<1>4. (n - 1) + 1 = n
    BY <1>1
<1> QED BY <1>1, <1>3, <1>4

(***************************************************************************)
(* A loop that runs N times has a course, whatever its step is.            *)
(***************************************************************************)
IsLoop(N, T, first, step) == N \in Nat /\ first \in T /\ step \in [1..N -> [T -> T]]
HasCourse(N, T, first, step) ==
    \E f \in [0..N -> T] : f[0] = first /\ \A k \in 1..N : f[k] = step[k][f[k - 1]]

(***************************************************************************)
(* A counted loop whose step always has a result runs to its end: it has a *)
(* course.                                                                 *)
(***************************************************************************)
LEMMA LoopRuns ==
    ASSUME NEW N, NEW T, NEW first, NEW step, IsLoop(N, T, first, step)
    PROVE  HasCourse(N, T, first, step)
<1>0. N \in Nat /\ first \in T /\ step \in [1..N -> [T -> T]]
    BY DEF IsLoop
<1> DEFINE Runs(n, f) == f[0] = first /\ \A k \in 1..n : f[k] = step[k][f[k - 1]]
           U == {n \in Nat : n <= N => \E f \in [0..n -> T] : Runs(n, f)}
<1>1. 0 \in U
    <2>1. [k \in 0..0 |-> first] \in [0..0 -> T] /\ 1..0 = {}
        BY <1>0
    <2>2. Runs(0, [k \in 0..0 |-> first])
        BY <2>1
    <2> QED BY <2>1, <2>2
<1>2. ASSUME NEW n \in U PROVE n + 1 \in U
    <2> SUFFICES ASSUME n + 1 <= N PROVE \E f \in [0..(n + 1) -> T] : Runs(n + 1, f)
        <3>1. n + 1 \in Nat
            OBVIOUS
        <3> HIDE DEF Runs
        <3> QED BY <3>1
    <2>1. n \in Nat /\ n <= N /\ n + 1 \in 1..N /\ n \in 0..n
        BY <1>0
    <2>2. PICK f \in [0..n -> T] : Runs(n, f)
        BY <2>1
    <2> DEFINE g == [k \in 0..(n + 1) |-> IF k = n + 1 THEN step[n + 1][f[n]] ELSE f[k]]
    <2>3. step[n + 1][f[n]] \in T
        BY <1>0, <2>1, <2>2
    <2>4. \A k \in 0..(n + 1) : k # n + 1 => k \in 0..n
        BY <2>1
    <2>5. g \in [0..(n + 1) -> T]
        BY <2>2, <2>3, <2>4
    <2>6. g[0] = first
        BY <2>1, <2>2
    <2>7. ASSUME NEW k \in 1..(n + 1) PROVE g[k] = step[k][g[k - 1]]
        <3>1. CASE k = n + 1
            <4>1. k \in 0..(n + 1) /\ k - 1 = n /\ n \in 0..(n + 1) /\ n # n + 1
                BY <2>1, <3>1
            <4> QED BY <3>1, <4>1
        <3>2. CASE k # n + 1
            <4>1. k \in 1..n /\ k \in 0..(n + 1) /\ k - 1 \in 0..(n + 1) /\ k - 1 # n + 1
                BY <2>1, <3>2
            <4> QED BY <2>2, <3>2, <4>1
        <3> QED BY <3>1, <3>2
    <2> QED BY <2>5, <2>6, <2>7
<1> HIDE DEF U
<1>3. U = Nat
    <2>1. U \in SUBSET Nat
        BY DEF U
    <2> QED BY <1>1, <1>2, <2>1, NatInd
<1>4. N \in U /\ N <= N
    BY <1>0, <1>3
<1> QED BY <1>4 DEF U, HasCourse

(***************************************************************************)
(* What holds at first and is kept by every pass holds after each.         *)
(***************************************************************************)
LEMMA LoopKeeps ==
    ASSUME NEW N \in Nat, NEW U \in SUBSET (0..N), 0 \in U,
           \A k \in 1..N : k - 1 \in U => k \in U
    PROVE  U = 0..N
<1> DEFINE V == {n \in Nat : n \in 0..N => n \in U}
<1>1. 0 \in V
    OBVIOUS
<1>2. ASSUME NEW n \in V PROVE n + 1 \in V
    <2>1. n + 1 \in 0..N => n \in 0..N /\ n + 1 \in 1..N /\ (n + 1) - 1 = n
        OBVIOUS
    <2> QED BY <2>1
<1>3. V = Nat
    BY <1>1, <1>2, NatInd
<1>4. \A n \in 0..N : n \in Nat /\ n \in V
    BY <1>3
<1> QED BY <1>4

-----------------------------------------------------------------------------
(***************************************************************************)
(* Arithmetic.                                                             *)
(***************************************************************************)

(***************************************************************************)
(* Division with remainder.                                                *)
(***************************************************************************)
LEMMA DivMod ==
    ASSUME NEW d \in Nat \ {0}, NEW x \in Nat
    PROVE  \E q \in Nat, k \in Nat : q = x \div d /\ k = x % d /\ k < d /\ x = d * q + k
<1>1. x % d \in Nat /\ x % d < d
    OBVIOUS
<1>2. x \div d \in Int /\ x \div d >= 0
    OBVIOUS
<1>3. x % d = x - d * (x \div d)
    OBVIOUS
<1>4. PICK q \in Nat, k \in Nat : q = x \div d /\ k = x % d
    BY <1>1, <1>2
<1>5. x = d * q + k
    BY <1>3, <1>4
<1> QED BY <1>1, <1>4, <1>5

(***************************************************************************)
(* Multiples are ordered as their factors.                                 *)
(***************************************************************************)
LEMMA TimesOrder ==
    ASSUME NEW d \in Nat \ {0}, NEW a \in Int, NEW b \in Int
    PROVE  /\ d * a \in Int /\ (a \in Nat => d * a \in Nat)
           /\ d * a <= d * b <=> a <= b
           /\ d * a < d * b <=> a < b
           /\ d * a = d * b <=> a = b
OBVIOUS

(***************************************************************************)
(* Quotient and remainder are unique.                                      *)
(***************************************************************************)
LEMMA DivModUnique ==
    ASSUME NEW d \in Nat \ {0}, NEW a \in Nat, NEW b \in Nat, b < d
    PROVE  (d * a + b) \div d = a /\ (d * a + b) % d = b
OBVIOUS

(***************************************************************************)
(* Multiplication distributes over sums and differences.                   *)
(***************************************************************************)
LEMMA TimesAdd ==
    ASSUME NEW d \in Nat, NEW a \in Int, NEW b \in Int
    PROVE  d * (a + b) = d * a + d * b /\ d * (a - b) = d * a - d * b
OBVIOUS
-----------------------------------------------------------------------------
(***************************************************************************)
(* Numbers as text: powers, the digits of a number from the lowest on, and *)
(* its numeral.  These are the definitions of Format.                      *)
(***************************************************************************)
PowerOf(b, k) ==
    LET p[i \in 0..k] == IF i = 0 THEN 1 ELSE b * p[i - 1]
    IN  p[k]

LowDigits(un, b) ==
    LET digits[u \in 0..un] == IF u = 0 THEN <<>> ELSE <<u % b>> \o digits[u \div b]
    IN  digits[un]

NumeralOf(u, b, w) ==
    LET len == CHOOSE k \in 1..(w + 1) : PowerOf(b, k) > u /\ (k = 1 \/ PowerOf(b, k - 1) <= u)
    IN  [i \in 1..len |-> (u \div PowerOf(b, len - i)) % b]

(***************************************************************************)
(* The recursion of a power has a solution, and every solution is the same *)
(* where two are defined.                                                  *)
(***************************************************************************)
ArePowers(f, b, n) == f = [i \in 0..n |-> IF i = 0 THEN 1 ELSE b * f[i - 1]]

(***************************************************************************)
(* There is a table of the powers of b up to the nth.                      *)
(***************************************************************************)
LEMMA PowersExist ==
    ASSUME NEW b \in Nat, NEW n \in Nat
    PROVE  \E f : ArePowers(f, b, n)
<1> DEFINE step == [i \in 1..n |-> [c \in Nat |-> b * c]]
<1>1. \A c \in Nat : b * c \in Nat
    OBVIOUS
<1>2. step \in [1..n -> [Nat -> Nat]]
    BY <1>1
<1>3. PICK f \in [0..n -> Nat] : f[0] = 1 /\ \A i \in 1..n : f[i] = step[i][f[i - 1]]
    <2> HIDE DEF step
    <2>1. IsLoop(n, Nat, 1, step)
        BY <1>2 DEF IsLoop
    <2>2. HasCourse(n, Nat, 1, step)
        BY <2>1, LoopRuns
    <2> QED BY <2>2 DEF HasCourse
<1>4. ASSUME NEW i \in 0..n PROVE f[i] = IF i = 0 THEN 1 ELSE b * f[i - 1]
    <2>1. i # 0 => i \in 1..n /\ i - 1 \in 0..n
        OBVIOUS
    <2>2. i # 0 => f[i - 1] \in Nat /\ f[i] = step[i][f[i - 1]]
        BY <1>3, <2>1
    <2> QED BY <1>3, <2>1, <2>2
<1>5. f = [i \in 0..n |-> IF i = 0 THEN 1 ELSE b * f[i - 1]]
    BY <1>4
<1> QED BY <1>5 DEF ArePowers

(***************************************************************************)
(* Two tables of powers agree where both have an entry.                    *)
(***************************************************************************)
LEMMA PowersAgree ==
    ASSUME NEW b \in Nat, NEW n \in Nat, NEW m \in Nat, n <= m,
           NEW f, ArePowers(f, b, n), NEW g, ArePowers(g, b, m)
    PROVE  f[n] = g[n] /\ f[n] \in Nat
<1> DEFINE U == {i \in 0..n : f[i] = g[i] /\ f[i] \in Nat}
<1>1. \A i \in 0..n : f[i] = IF i = 0 THEN 1 ELSE b * f[i - 1]
    BY DEF ArePowers
<1>2. \A i \in 0..m : g[i] = IF i = 0 THEN 1 ELSE b * g[i - 1]
    BY DEF ArePowers
<1>3. 0 \in U
    BY <1>1, <1>2
<1>4. ASSUME NEW i \in 1..n, i - 1 \in U PROVE i \in U
    <2>1. i \in 0..n /\ i \in 0..m /\ i # 0
        OBVIOUS
    <2>2. PICK c \in Nat : c = f[i - 1] /\ c = g[i - 1]
        BY <1>4
    <2>3. f[i] = b * c /\ g[i] = b * c
        BY <1>1, <1>2, <2>1, <2>2
    <2>4. b * c \in Nat
        OBVIOUS
    <2> QED BY <2>1, <2>3, <2>4
<1>5. U = 0..n
    <2>1. U \in SUBSET (0..n)
        OBVIOUS
    <2> HIDE DEF U
    <2> QED BY <1>3, <1>4, <2>1, LoopKeeps
<1>6. n \in 0..n
    OBVIOUS
<1> QED BY <1>5, <1>6

(***************************************************************************)
(* A power is the product of the one before with the base.                 *)
(***************************************************************************)
LEMMA Powers ==
    ASSUME NEW b \in Nat, b > 1
    PROVE  /\ PowerOf(b, 0) = 1
           /\ \A k \in Nat : /\ PowerOf(b, k) \in Nat \ {0}
                             /\ PowerOf(b, k + 1) = b * PowerOf(b, k)
<1> DEFINE P(k) == CHOOSE f : ArePowers(f, b, k)
<1>1. ASSUME NEW k \in Nat PROVE ArePowers(P(k), b, k) /\ PowerOf(b, k) = P(k)[k]
    <2>1. ArePowers(P(k), b, k)
        BY PowersExist
    <2>2. PowerOf(b, k) = P(k)[k]
        BY DEF PowerOf, ArePowers
    <2> QED BY <2>1, <2>2
<1> HIDE DEF P
<1>2. PowerOf(b, 0) = 1
    BY <1>1 DEF ArePowers
<1>3. ASSUME NEW k \in Nat PROVE PowerOf(b, k) \in Nat /\ PowerOf(b, k + 1) = b * PowerOf(b, k)
    <2>1. k + 1 \in Nat /\ k <= k + 1 /\ k + 1 \in 0..(k + 1) /\ k + 1 # 0 /\ (k + 1) - 1 = k
        OBVIOUS
    <2>2. PICK f, g : ArePowers(f, b, k) /\ ArePowers(g, b, k + 1) /\ f = P(k) /\ g = P(k + 1)
        BY <1>1, <2>1
    <2>3. f[k] = g[k] /\ f[k] \in Nat
        BY <2>1, <2>2, PowersAgree
    <2>4. g[k + 1] = b * g[(k + 1) - 1]
        BY <2>1, <2>2 DEF ArePowers
    <2>5. PowerOf(b, k) = f[k] /\ PowerOf(b, k + 1) = g[k + 1]
        BY <1>1, <2>1, <2>2
    <2> QED BY <2>1, <2>3, <2>4, <2>5
<1> DEFINE Ns == {k \in Nat : PowerOf(b, k) # 0}
<1>4. 0 \in Ns
    BY <1>2
<1>5. ASSUME NEW k \in Ns PROVE k + 1 \in Ns
    <2>1. PICK c \in Nat : c = PowerOf(b, k) /\ c # 0 /\ PowerOf(b, k + 1) = b * c
        BY <1>3
    <2>2. b * c # 0
        <3>1. b * 0 = b * c <=> 0 = c
            BY TimesOrder
        <3> QED BY <2>1, <3>1
    <2> QED BY <2>1, <2>2
<1>6. Ns = Nat
    <2>1. Ns \in SUBSET Nat
        OBVIOUS
    <2> HIDE DEF Ns
    <2> QED BY <1>4, <1>5, <2>1, NatInd
<1>7. \A k \in Nat : PowerOf(b, k) # 0
    BY <1>6
<1> QED BY <1>2, <1>3, <1>7

(***************************************************************************)
(* Powers grow: with the exponent, and with the base.                      *)
(***************************************************************************)
LEMMA PowersGrow ==
    ASSUME NEW b \in Nat, b > 1, NEW j \in Nat, NEW k \in Nat, j <= k
    PROVE  PowerOf(b, j) <= PowerOf(b, k) /\ (j < k => PowerOf(b, j) < PowerOf(b, k))
<1> DEFINE Ns == {n \in Nat : PowerOf(b, j) <= PowerOf(b, j + n)
                              /\ (n > 0 => PowerOf(b, j) < PowerOf(b, j + n))}
<1>1. 0 \in Ns
    <2>1. j + 0 = j /\ PowerOf(b, j) \in Nat
        BY Powers
    <2> QED BY <2>1
<1>2. ASSUME NEW n \in Ns PROVE n + 1 \in Ns
    <2>1. j + n \in Nat /\ (j + n) + 1 = j + (n + 1) /\ n + 1 \in Nat
        OBVIOUS
    <2>2. PICK c \in Nat \ {0}, a \in Nat \ {0} : c = PowerOf(b, j + n) /\ a = PowerOf(b, j)
        BY <2>1, Powers
    <2>3. PowerOf(b, j + (n + 1)) = b * c
        BY <2>1, <2>2, Powers
    <2>4. b * c > c
        OBVIOUS
    <2>5. a <= c
        BY <2>2
    <2>6. PICK e \in Nat : e = b * c
        OBVIOUS
    <2>7. a < e
        BY <2>4, <2>5, <2>6
    <2> QED BY <2>1, <2>2, <2>3, <2>6, <2>7
<1>3. Ns = Nat
    <2>1. Ns \in SUBSET Nat
        OBVIOUS
    <2> HIDE DEF Ns
    <2> QED BY <1>1, <1>2, <2>1, NatInd
<1>4. PICK n \in Nat : n = k - j /\ j + n = k
    OBVIOUS
<1>5. n \in Ns /\ (j < k => n > 0)
    <2> HIDE DEF Ns
    <2> QED BY <1>3, <1>4
<1> QED BY <1>4, <1>5

(***************************************************************************)
(* A larger base has larger powers.                                        *)
(***************************************************************************)
LEMMA PowersGrowInBase ==
    ASSUME NEW a \in Nat, a > 1, NEW b \in Nat, a <= b, NEW k \in Nat
    PROVE  PowerOf(a, k) <= PowerOf(b, k) /\ (a < b /\ k > 0 => PowerOf(a, k) < PowerOf(b, k))
<1> DEFINE Ns == {n \in Nat : PowerOf(a, n) <= PowerOf(b, n)
                              /\ (a < b /\ n > 0 => PowerOf(a, n) < PowerOf(b, n))}
<1>1. b > 1
    OBVIOUS
<1>2. 0 \in Ns
    BY <1>1, Powers
<1>3. ASSUME NEW n \in Ns PROVE n + 1 \in Ns
    <2>1. PICK c \in Nat \ {0}, d \in Nat \ {0} : c = PowerOf(a, n) /\ d = PowerOf(b, n)
        BY <1>1, Powers
    <2>2. PowerOf(a, n + 1) = a * c /\ PowerOf(b, n + 1) = b * d
        BY <1>1, <2>1, Powers
    <2>3. c <= d
        BY <2>1
    <2>4. a * c <= b * d /\ (a < b => a * c < b * d)
        <3>1. a * c <= a * d
            BY <2>3, TimesOrder
        <3>2. d * a <= d * b /\ (a < b => d * a < d * b)
            BY TimesOrder
        <3>3. PICK x \in Nat, y \in Nat, z \in Nat : x = a * c /\ y = a * d /\ z = b * d
            OBVIOUS
        <3>4. d * a = y /\ d * b = z
            BY <3>3
        <3> QED BY <3>1, <3>2, <3>3, <3>4
    <2>5. n + 1 \in Nat
        OBVIOUS
    <2> QED BY <2>2, <2>4, <2>5
<1>4. Ns = Nat
    <2>1. Ns \in SUBSET Nat
        OBVIOUS
    <2> HIDE DEF Ns
    <2> QED BY <1>2, <1>3, <2>1, NatInd
<1>5. k \in Ns
    BY <1>4
<1> QED BY <1>5

(***************************************************************************)
(* Dividing twice is dividing by the product.                              *)
(***************************************************************************)
LEMMA Quotients ==
    ASSUME NEW b \in Nat \ {0}, NEW c \in Nat \ {0}, NEW u \in Nat
    PROVE  (u \div b) \div c = u \div (b * c)
<1>1. PICK q \in Nat, r \in Nat : q = u \div b /\ r = u % b /\ r < b /\ u = b * q + r
    BY DivMod
<1>2. PICK t \in Nat, s \in Nat : t = q \div c /\ s = q % c /\ s < c /\ q = c * t + s
    BY DivMod
<1>3. PICK e \in Nat \ {0} : e = b * c
    OBVIOUS
<1>4. u = e * t + (b * s + r)
    <2>1. b * (c * t + s) = b * (c * t) + b * s
        <3>1. c * t \in Int
            OBVIOUS
        <3> QED BY <3>1, TimesAdd
    <2>2. b * (c * t) = (b * c) * t
        OBVIOUS
    <2>3. PICK x \in Nat, k \in Nat, m \in Nat : x = b * q /\ k = b * s /\ m = e * t
        OBVIOUS
    <2>4. b * q = b * (c * t + s)
        BY <1>2
    <2>5. x = m + k
        BY <1>3, <2>1, <2>2, <2>3, <2>4
    <2> QED BY <1>1, <2>3, <2>5
<1>5. b * s + r \in Nat /\ b * s + r < e
    <2>1. b * (s + 1) <= b * c
        BY <1>2, TimesOrder
    <2>2. b * (s + 1) = b * s + b * 1
        BY TimesAdd
    <2>3. PICK m \in Nat : m = b * s
        OBVIOUS
    <2> QED BY <1>1, <1>3, <2>1, <2>2, <2>3
<1>6. u \div e = t
    <2>1. PICK m \in Nat : m = b * s + r /\ m < e
        BY <1>5
    <2>2. (e * t + m) \div e = t
        BY <2>1, DivModUnique
    <2> QED BY <1>4, <2>1, <2>2
<1> QED BY <1>1, <1>2, <1>3, <1>6

(***************************************************************************)
(* A quotient by more than one is less.                                    *)
(***************************************************************************)
LEMMA QuotientLess ==
    ASSUME NEW b \in Nat, b > 1, NEW u \in Nat, u > 0
    PROVE  u \div b \in Nat /\ u \div b < u
<1>1. PICK q \in Nat, r \in Nat : q = u \div b /\ u = b * q + r
    BY DivMod
<1>2. q = 0 \/ b * q > q
    OBVIOUS
<1>3. b * q \in Nat
    OBVIOUS
<1> QED BY <1>1, <1>2, <1>3

(***************************************************************************)
(* The recursion over the digits has a solution.                           *)
(***************************************************************************)
AreDigits(f, b, n) == f = [u \in 0..n |-> IF u = 0 THEN <<>> ELSE <<u % b>> \o f[u \div b]]

(***************************************************************************)
(* There is a table of the digit strings, lowest digit first, of all       *)
(* numbers up to n.                                                        *)
(***************************************************************************)
LEMMA DigitsExist ==
    ASSUME NEW b \in Nat, b > 1, NEW n \in Nat
    PROVE  \E f : AreDigits(f, b, n)
<1> DEFINE Ns == {m \in Nat : \E f : AreDigits(f, b, m)}
           first == [u \in 0..0 |-> <<>>]
<1>1. 0 \in Ns
    <2>1. \A u \in 0..0 : u = 0
        OBVIOUS
    <2>2. first = [u \in 0..0 |-> IF u = 0 THEN <<>> ELSE <<u % b>> \o first[u \div b]]
        BY <2>1
    <2>3. AreDigits(first, b, 0)
        BY <2>2 DEF AreDigits
    <2> QED BY <2>3
<1>2. ASSUME NEW m \in Ns PROVE m + 1 \in Ns
    <2>1. PICK f : AreDigits(f, b, m)
        OBVIOUS
    <2>2. m \in Nat /\ \A u \in 0..m : f[u] = IF u = 0 THEN <<>> ELSE <<u % b>> \o f[u \div b]
        BY <2>1 DEF AreDigits
    <2> DEFINE last == <<(m + 1) % b>> \o f[(m + 1) \div b]
               g == [u \in 0..(m + 1) |-> IF u = m + 1 THEN last ELSE f[u]]
    <2>3. ASSUME NEW u \in 0..(m + 1), u # 0 PROVE u \div b \in 0..m
        <3>1. u \in Nat /\ u > 0 /\ u <= m + 1
            BY <2>2, <2>3
        <3>2. PICK q \in Nat : q = u \div b /\ q < u
            BY <3>1, QuotientLess
        <3> QED BY <2>2, <3>1, <3>2
    <2>4. \A v \in 0..m : v \in 0..(m + 1) /\ g[v] = f[v]
        <3> HIDE DEF last
        <3> QED BY <2>2
    <2>5. ASSUME NEW u \in 0..(m + 1)
          PROVE  g[u] = IF u = 0 THEN <<>> ELSE <<u % b>> \o g[u \div b]
        <3>1. CASE u = m + 1
            <4>1. u # 0 /\ u \div b \in 0..m
                BY <2>2, <2>3, <3>1
            <4>2. g[u] = last
                <5> HIDE DEF last
                <5> QED BY <3>1
            <4>3. g[u \div b] = f[u \div b]
                <5> HIDE DEF g
                <5> QED BY <2>4, <4>1
            <4> HIDE DEF g
            <4> QED BY <3>1, <4>1, <4>2, <4>3
        <3>2. CASE u # m + 1
            <4>1. u \in 0..m /\ g[u] = f[u]
                <5>1. u \in 0..m
                    BY <2>2, <3>2
                <5> HIDE DEF g
                <5> QED BY <2>4, <5>1
            <4>2. u # 0 => g[u \div b] = f[u \div b]
                <5> HIDE DEF g
                <5> QED BY <2>3, <2>4
            <4> HIDE DEF g
            <4> QED BY <2>2, <4>1, <4>2
        <3> QED BY <3>1, <3>2
    <2>6. g = [u \in 0..(m + 1) |-> IF u = 0 THEN <<>> ELSE <<u % b>> \o g[u \div b]]
        <3>1. g = [u \in 0..(m + 1) |-> g[u]]
            <4> HIDE DEF last
            <4> QED OBVIOUS
        <3> HIDE DEF g
        <3> QED BY <2>5, <3>1
    <2>7. AreDigits(g, b, m + 1)
        <3> HIDE DEF g
        <3> QED BY <2>6 DEF AreDigits
    <2>8. m + 1 \in Nat
        BY <2>2
    <2> HIDE DEF g
    <2> QED BY <2>7, <2>8
<1> HIDE DEF Ns
<1>3. Ns = Nat
    <2>1. Ns \in SUBSET Nat
        BY DEF Ns
    <2> QED BY <1>1, <1>2, <2>1, NatInd
<1>4. n \in Ns
    BY <1>3
<1> QED BY <1>4 DEF Ns

(***************************************************************************)
(* The digits of u from the lowest on: as many as it takes, each the       *)
(* number divided by a power of the base.                                  *)
(***************************************************************************)
IsLow(s, u, b) ==
    /\ s \in Seq(Nat)
    /\ u = 0 => s = <<>>
    /\ u > 0 => /\ Len(s) >= 1 /\ PowerOf(b, Len(s) - 1) <= u /\ u < PowerOf(b, Len(s))
                /\ \A i \in 1..Len(s) : s[i] = (u \div PowerOf(b, i - 1)) % b

(***************************************************************************)
(* One more digit in front.                                                *)
(***************************************************************************)
LEMMA OneDigitMore ==
    ASSUME NEW b \in Nat, b > 1, NEW u \in Nat, u > 0, NEW s, IsLow(s, u \div b, b)
    PROVE  IsLow(<<u % b>> \o s, u, b)
<1>1. PICK v \in Nat, r \in Nat : v = u \div b /\ r = u % b /\ r < b /\ u = b * v + r
    BY DivMod
<1>2. s \in Seq(Nat) /\ Len(s) \in Nat
    BY DEF IsLow
<1>3. PICK t : t = <<r>> \o s
    OBVIOUS
<1>4. /\ t \in Seq(Nat) /\ Len(t) = Len(s) + 1 /\ t[1] = r
      /\ \A i \in 1..Len(s) : t[i + 1] = s[i]
    BY <1>2, <1>3
<1>5. PowerOf(b, 0) = 1 /\ PowerOf(b, 1) = b
    <2>1. PowerOf(b, 0) = 1 /\ PowerOf(b, 0 + 1) = b * PowerOf(b, 0)
        BY Powers
    <2> QED BY <2>1
<1>6. u \div 1 = u
    OBVIOUS
<1>7. CASE v = 0
    <2>1. s = <<>> /\ u = r
        <3>1. b * 0 = 0
            OBVIOUS
        <3> QED BY <1>1, <1>7, <3>1 DEF IsLow
    <2>2. Len(t) = 1
        BY <1>4, <2>1
    <2>3. (u \div PowerOf(b, 1 - 1)) % b = r
        BY <1>1, <1>5, <1>6
    <2>4. \A i \in 1..Len(t) : i = 1
        BY <2>2
    <2> QED BY <1>1, <1>3, <1>4, <1>5, <2>1, <2>2, <2>3, <2>4 DEF IsLow
<1>8. CASE v > 0
    <2>0. Len(s) >= 1
        <3>1. IsLow(s, v, b)
            BY <1>1
        <3> QED BY <1>8, <3>1 DEF IsLow
    <2>1. PICK n \in Nat : n = Len(s) - 1 /\ Len(s) = n + 1
        BY <1>2, <2>0
    <2>2. /\ PowerOf(b, n) <= v /\ v < PowerOf(b, n + 1)
          /\ \A i \in 1..(n + 1) : s[i] = (v \div PowerOf(b, i - 1)) % b
        BY <1>1, <1>8, <2>1 DEF IsLow
    <2>3. PICK c \in Nat \ {0}, d \in Nat \ {0} : c = PowerOf(b, n) /\ d = PowerOf(b, n + 1)
        <3>1. n \in Nat /\ n + 1 \in Nat
            OBVIOUS
        <3>2. PowerOf(b, n) \in Nat \ {0} /\ PowerOf(b, n + 1) \in Nat \ {0}
            BY <3>1, Powers
        <3> QED BY <3>2
    <2>4. d = b * c /\ PowerOf(b, (n + 1) + 1) = b * d
        BY Powers, <2>3
    <2>5. Len(t) = (n + 1) + 1 /\ Len(t) - 1 = n + 1 /\ Len(t) >= 1
        BY <1>4, <2>1
    <2>6. d <= u
        <3>1. b * c <= b * v
            BY <2>2, <2>3, TimesOrder
        <3>2. PICK m \in Nat : m = b * v
            OBVIOUS
        <3> QED BY <1>1, <2>4, <3>1, <3>2
    <2>7. u < b * d
        <3>1. b * (v + 1) <= b * d
            BY <2>2, <2>3, TimesOrder
        <3>2. b * (v + 1) = b * v + b * 1
            BY TimesAdd
        <3>3. PICK m \in Nat, k \in Nat : m = b * v /\ k = b * d
            OBVIOUS
        <3> QED BY <1>1, <3>1, <3>2, <3>3
    <2>8. ASSUME NEW i \in 1..Len(t) PROVE t[i] = (u \div PowerOf(b, i - 1)) % b
        <3>1. CASE i = 1
            <4>1. i - 1 = 0
                BY <3>1
            <4> QED BY <1>1, <1>4, <1>5, <1>6, <3>1, <4>1
        <3>2. CASE i # 1
            <4>1. PICK j \in 1..(n + 1) : i = j + 1 /\ j = i - 1
                BY <2>5, <3>2
            <4>2. PICK k \in Nat : j = k + 1 /\ k = j - 1
                BY <4>1
            <4>3. PICK e \in Nat \ {0} : e = PowerOf(b, k)
                BY Powers
            <4>4. PowerOf(b, j) = b * e
                BY Powers, <4>2, <4>3
            <4>5. (u \div b) \div e = u \div (b * e)
                BY Quotients
            <4>6. t[i] = s[j] /\ s[j] = (v \div e) % b
                BY <1>4, <2>1, <2>2, <4>1, <4>2, <4>3
            <4> QED BY <1>1, <4>1, <4>4, <4>5, <4>6
        <3> QED BY <3>1, <3>2
    <2>9. PowerOf(b, Len(t) - 1) <= u /\ u < PowerOf(b, Len(t))
        BY <2>3, <2>4, <2>5, <2>6, <2>7
    <2>10. IsLow(t, u, b)
        BY <1>4, <2>5, <2>8, <2>9 DEF IsLow
    <2> QED BY <1>1, <1>3, <2>10
<1>9. v = 0 \/ v > 0
    OBVIOUS
<1> QED BY <1>7, <1>8, <1>9

(***************************************************************************)
(* The digits that the division loop of itoa leaves, lowest first, are     *)
(* digits of the base and their weighted sum is the number.                *)
(***************************************************************************)
LEMMA LowFirstRight ==
    ASSUME NEW b \in Nat, b > 1, NEW un \in Nat
    PROVE  IsLow(LowDigits(un, b), un, b)
<1> DEFINE f == CHOOSE g : AreDigits(g, b, un)
<1>1. AreDigits(f, b, un)
    BY DigitsExist
<1>2. LowDigits(un, b) = f[un]
    BY DEF LowDigits, AreDigits
<1> HIDE DEF f
<1>3. \A u \in 0..un : f[u] = IF u = 0 THEN <<>> ELSE <<u % b>> \o f[u \div b]
    BY <1>1 DEF AreDigits
<1> DEFINE Ns == {n \in Nat : \A u \in 0..un : u <= n => IsLow(f[u], u, b)}
<1>4. 0 \in Ns
    <2>1. <<>> \in Seq(Nat)
        OBVIOUS
    <2>2. IsLow(<<>>, 0, b)
        BY <2>1 DEF IsLow
    <2>4. 0 \in 0..un /\ \A u \in 0..un : u <= 0 => u = 0
        OBVIOUS
    <2>3. \A u \in 0..un : u <= 0 => u = 0 /\ f[u] = <<>>
        BY <1>3, <2>4
    <2> QED BY <2>2, <2>3
<1>5. ASSUME NEW n \in Ns PROVE n + 1 \in Ns
    <2>1. ASSUME NEW u \in 0..un, u = n + 1 PROVE IsLow(f[u], u, b)
        <3>1. u \in Nat /\ u > 0 /\ u # 0
            BY <2>1
        <3>2. PICK q \in Nat : q = u \div b /\ q < u
            BY <3>1, QuotientLess
        <3>3. q \in 0..un /\ q <= n
            BY <2>1, <3>1, <3>2
        <3>4. IsLow(f[q], q, b)
            BY <3>3
        <3>5. f[u] = <<u % b>> \o f[q]
            BY <1>3, <3>1, <3>2
        <3>6. IsLow(<<u % b>> \o f[q], u, b)
            BY <3>1, <3>2, <3>4, OneDigitMore
        <3> QED BY <3>5, <3>6
    <2>2. \A u \in 0..un : u <= n + 1 => u <= n \/ u = n + 1
        OBVIOUS
    <2>3. \A u \in 0..un : u <= n => IsLow(f[u], u, b)
        OBVIOUS
    <2>4. n + 1 \in Nat
        OBVIOUS
    <2> QED BY <2>1, <2>2, <2>3, <2>4
<1>6. Ns = Nat
    <2>1. Ns \in SUBSET Nat
        OBVIOUS
    <2> HIDE DEF Ns
    <2> QED BY <1>4, <1>5, <2>1, NatInd
<1>7. un \in Ns /\ un \in 0..un /\ un <= un
    BY <1>6
<1> QED BY <1>2, <1>7

(***************************************************************************)
(* Turned around, the digits are the numeral, of at most as many digits as *)
(* the number has bits.                                                    *)
(***************************************************************************)
LEMMA DigitsAreNumeral ==
    ASSUME NEW b \in Nat, b > 1, NEW w \in Nat, NEW u \in Nat, u < PowerOf(b, w)
    PROVE  /\ u > 0 => /\ Reverse(LowDigits(u, b)) = NumeralOf(u, b, w)
                       /\ Len(NumeralOf(u, b, w)) \in 1..w
           /\ NumeralOf(0, b, w) = <<0>>
           /\ NumeralOf(u, b, w) \in Seq(Nat)
<1> DEFINE Fit(n, v) == PowerOf(b, n) > v /\ (n = 1 \/ PowerOf(b, n - 1) <= v)
<1>1. PowerOf(b, 0) = 1 /\ PowerOf(b, 1) = b
    <2>1. PowerOf(b, 0) = 1 /\ PowerOf(b, 0 + 1) = b * PowerOf(b, 0)
        BY Powers
    <2> QED BY <2>1
<1>2. ASSUME NEW v \in Nat, NEW n \in 1..(w + 1), Fit(n, v)
      PROVE  NumeralOf(v, b, w) = [i \in 1..n |-> (v \div PowerOf(b, n - i)) % b]
    <2>1. ASSUME NEW m \in 1..(w + 1), Fit(m, v), NEW l \in 1..(w + 1), Fit(l, v), m < l
          PROVE  FALSE
        <3>1. l # 1 /\ m \in Nat /\ l - 1 \in Nat /\ m <= l - 1
            BY <2>1
        <3>2. PowerOf(b, m) <= PowerOf(b, l - 1)
            BY <3>1, PowersGrow
        <3>3. PICK c \in Nat, d \in Nat : c = PowerOf(b, m) /\ d = PowerOf(b, l - 1)
            BY <3>1, Powers
        <3>4. c > v /\ d <= v
            BY <2>1, <3>1, <3>3
        <3> QED BY <3>2, <3>3, <3>4
    <2>2. \A m \in 1..(w + 1) : Fit(m, v) => m = n
        <3> HIDE DEF Fit
        <3>1. \A m \in 1..(w + 1) : m < n \/ n < m \/ m = n
            OBVIOUS
        <3> QED BY <1>2, <2>1, <3>1
    <2>3. (CHOOSE m \in 1..(w + 1) : Fit(m, v)) = n
        <3> HIDE DEF Fit
        <3> QED BY <1>2, <2>2
    <2>4. NumeralOf(v, b, w) = LET len == CHOOSE m \in 1..(w + 1) : Fit(m, v)
                               IN  [i \in 1..len |-> (v \div PowerOf(b, len - i)) % b]
        BY Zenon DEF NumeralOf
    <2> HIDE DEF Fit
    <2> QED BY <2>3, <2>4
<1>3. NumeralOf(0, b, w) = <<0>>
    <2>1. 1 \in 1..(w + 1) /\ Fit(1, 0)
        BY <1>1
    <2>2. NumeralOf(0, b, w) = [i \in 1..1 |-> (0 \div PowerOf(b, 1 - i)) % b]
        <3> HIDE DEF Fit
        <3> QED BY <1>2, <2>1
    <2>3. \A i \in 1..1 : i = 1 /\ (0 \div PowerOf(b, 1 - i)) % b = 0
        <3>1. (0 \div 1) % b = 0
            OBVIOUS
        <3> QED BY <1>1, <3>1
    <2>4. NumeralOf(0, b, w) = [i \in 1..1 |-> 0]
        BY <2>2, <2>3
    <2>5. [i \in 1..1 |-> 0] = <<0>>
        OBVIOUS
    <2> QED BY <2>4, <2>5
<1>4. ASSUME u > 0
      PROVE  /\ Reverse(LowDigits(u, b)) = NumeralOf(u, b, w)
             /\ Len(NumeralOf(u, b, w)) \in 1..w
             /\ NumeralOf(u, b, w) \in Seq(Nat)
    <2>1. PICK s : s = LowDigits(u, b) /\ IsLow(s, u, b)
        BY LowFirstRight
    <2>2. PICK n \in Nat : n = Len(s) /\ n >= 1 /\ n - 1 \in Nat
        BY <1>4, <2>1 DEF IsLow
    <2>3. /\ s \in Seq(Nat) /\ PowerOf(b, n - 1) <= u /\ u < PowerOf(b, n)
          /\ \A i \in 1..n : s[i] = (u \div PowerOf(b, i - 1)) % b
        BY <1>4, <2>1, <2>2 DEF IsLow
    <2>4. n <= w
        <3> SUFFICES ASSUME ~(n <= w) PROVE FALSE
            OBVIOUS
        <3>1. w <= n - 1
            BY <2>2
        <3>2. PowerOf(b, w) <= PowerOf(b, n - 1)
            BY <2>2, <3>1, PowersGrow
        <3>3. PowerOf(b, w) \in Nat /\ PowerOf(b, n - 1) \in Nat
            BY <2>2, Powers
        <3> QED BY <2>3, <3>2, <3>3
    <2>5. n \in 1..(w + 1) /\ Fit(n, u)
        BY <2>2, <2>3, <2>4, Powers
    <2>6. NumeralOf(u, b, w) = [i \in 1..n |-> (u \div PowerOf(b, n - i)) % b]
        <3> HIDE DEF Fit
        <3> QED BY <1>2, <2>5
    <2>7. Reverse(s) = [i \in 1..n |-> s[(n - i) + 1]]
        BY <2>2 DEF Reverse
    <2>8. \A i \in 1..n : /\ s[(n - i) + 1] = (u \div PowerOf(b, n - i)) % b
                           /\ s[(n - i) + 1] \in Nat
        <3>1. \A i \in 1..n : (n - i) + 1 \in 1..n /\ ((n - i) + 1) - 1 = n - i
            BY <2>2
        <3>2. ASSUME NEW i \in 1..n
              PROVE  /\ s[(n - i) + 1] = (u \div PowerOf(b, n - i)) % b
                     /\ s[(n - i) + 1] \in Nat
            <4>1. PICK j \in 1..n : j = (n - i) + 1 /\ j - 1 = n - i
                BY <3>1
            <4>2. s[j] = (u \div PowerOf(b, j - 1)) % b
                BY <2>3
            <4>3. s[j] \in Nat
                BY <2>2, <2>3
            <4> QED BY <4>1, <4>2, <4>3
        <3> QED BY <3>2
    <2>9. Reverse(s) = NumeralOf(u, b, w)
        BY <2>6, <2>7, <2>8
    <2>10. NumeralOf(u, b, w) \in [1..n -> Nat]
        BY <2>6, <2>8
    <2>11. Len(NumeralOf(u, b, w)) = n /\ NumeralOf(u, b, w) \in Seq(Nat)
        BY <2>2, <2>10
    <2> QED BY <2>1, <2>2, <2>4, <2>9, <2>11
<1>5. <<0>> \in Seq(Nat)
    OBVIOUS
<1>6. CASE u > 0
    BY <1>3, <1>4, <1>6
<1>7. CASE ~(u > 0)
    <2>1. u = 0
        BY <1>7
    <2> QED BY <1>3, <1>5, <1>7, <2>1
<1> QED BY <1>6, <1>7

(***************************************************************************)
(* Modulo M, a number between -M and M stays or wraps once.                *)
(***************************************************************************)
LEMMA Wraps ==
    ASSUME NEW M \in Nat \ {0}, NEW n \in Int, -M < n, n < M
    PROVE  n % M = IF n < 0 THEN n + M ELSE n
OBVIOUS

(***************************************************************************)
(* Conversions of an int n of w bits.  As unsigned, every base has at most *)
(* w digits; with a sign, a base above two needs one digit fewer.          *)
(***************************************************************************)
ReadsUnsigned(n, b, w) ==
    LET u == n % PowerOf(2, w) IN
    /\ n = 0 => NumeralOf(u, b, w) = <<0>>
    /\ n # 0 => Reverse(LowDigits(u, b)) = NumeralOf(u, b, w)
    /\ NumeralOf(u, b, w) \in Seq(Nat) /\ Len(NumeralOf(u, b, w)) <= w

ReadsSigned(n, b, w) ==
    LET a == IF n < 0 THEN -n ELSE n IN
    /\ n = 0 => NumeralOf(n, b, w) = <<0>>
    /\ n # 0 => Reverse(LowDigits(a % PowerOf(2, w), b)) = NumeralOf(a, b, w)
    /\ NumeralOf(a, b, w) \in Seq(Nat) /\ Len(NumeralOf(a, b, w)) + 1 <= w

(***************************************************************************)
(* What itoa prints of a word can be read back: as an unsigned word in     *)
(* every base, and as a signed one where a minus sign is printed.          *)
(***************************************************************************)
LEMMA NumbersRead ==
    ASSUME NEW w \in Nat, w > 1, NEW b \in Nat, b > 1, NEW n \in Int,
           -PowerOf(2, w - 1) <= n, n < PowerOf(2, w - 1)
    PROVE  ReadsUnsigned(n, b, w) /\ (b > 2 => ReadsSigned(n, b, w))
<1>0. PICK v \in Nat : v = w - 1 /\ w = v + 1 /\ v > 0
    OBVIOUS
<1>1. PICK h \in Nat \ {0}, m \in Nat \ {0} :
         h = PowerOf(2, v) /\ m = PowerOf(2, w) /\ m = 2 * h
    <2>0. PICK t \in Nat : t = 2 /\ t > 1
        OBVIOUS
    <2>3. PowerOf(t, v) \in Nat \ {0} /\ PowerOf(t, v + 1) = t * PowerOf(t, v)
        BY <2>0, Powers
    <2>4. PowerOf(t, w) \in Nat \ {0}
        BY <2>0, Powers
    <2>1. PowerOf(2, v) \in Nat \ {0} /\ PowerOf(2, v + 1) = 2 * PowerOf(2, v)
        BY <2>0, <2>3
    <2>2. PowerOf(2, w) \in Nat \ {0}
        BY <2>0, <2>4
    <2> QED BY <1>0, <2>1, <2>2
<1>2. -h <= n /\ n < h /\ -m < n /\ n < m
    <2>1. -h <= n /\ n < h
        BY <1>0, <1>1
    <2> QED BY <1>1, <2>1
<1>3. PICK c \in Nat, d \in Nat : c = PowerOf(b, w) /\ d = PowerOf(b, v) /\ m <= c
                                /\ (b > 2 => h < d)
    <2>1. PowerOf(b, w) \in Nat /\ PowerOf(b, v) \in Nat
        BY Powers
    <2>2. 2 <= b /\ 2 \in Nat /\ 2 > 1
        OBVIOUS
    <2>3. PowerOf(2, w) <= PowerOf(b, w)
        BY <2>2, PowersGrowInBase
    <2>4. b > 2 => PowerOf(2, v) < PowerOf(b, v)
        BY <1>0, <2>2, PowersGrowInBase
    <2> QED BY <1>1, <2>1, <2>3, <2>4
<1>4. PICK u \in Nat : u = n % m /\ u < m /\ (u = 0 <=> n = 0)
    <2>1. n % m = IF n < 0 THEN n + m ELSE n
        BY <1>2, Wraps
    <2>2. n % m \in Nat /\ n % m < m /\ (n % m = 0 <=> n = 0)
        BY <1>2, <2>1
    <2> QED BY <2>2
<1>5. PICK a \in Nat : a = (IF n < 0 THEN -n ELSE n) /\ a <= h /\ a < m /\ (a = 0 <=> n = 0)
    BY <1>1, <1>2
<1>6. a % m = a
    <2>1. a \in Int /\ -m < a /\ ~(a < 0)
        BY <1>5
    <2> QED BY <1>5, <2>1, Wraps
<1>7. /\ u > 0 => /\ Reverse(LowDigits(u, b)) = NumeralOf(u, b, w)
                  /\ Len(NumeralOf(u, b, w)) \in 1..w
      /\ NumeralOf(0, b, w) = <<0>>
      /\ NumeralOf(u, b, w) \in Seq(Nat)
    <2>1. u < PowerOf(b, w)
        BY <1>3, <1>4
    <2> QED BY <2>1, DigitsAreNumeral
<1>8. Len(<<0>>) = 1
    OBVIOUS
<1>9. ReadsUnsigned(n, b, w)
    <2>1. CASE n = 0
        <3>1. u = 0 /\ NumeralOf(u, b, w) = <<0>>
            BY <1>4, <1>7, <2>1
        <3>2. Len(NumeralOf(u, b, w)) <= w
            <4>1. Len(NumeralOf(u, b, w)) = 1
                BY <1>8, <3>1
            <4> QED BY <4>1
        <3> QED BY <1>1, <1>4, <1>7, <2>1, <3>1, <3>2 DEF ReadsUnsigned
    <2>2. CASE n # 0
        <3>1. u > 0
            BY <1>4, <2>2
        <3>2. Len(NumeralOf(u, b, w)) <= w
            BY <1>7, <3>1
        <3> QED BY <1>1, <1>4, <1>7, <2>2, <3>1, <3>2 DEF ReadsUnsigned
    <2> QED BY <2>1, <2>2
<1>10. ASSUME b > 2 PROVE ReadsSigned(n, b, w)
    <2>1. a < PowerOf(b, v) /\ a < PowerOf(b, w)
        BY <1>3, <1>5, <1>10
    <2>2. /\ a > 0 => /\ Reverse(LowDigits(a, b)) = NumeralOf(a, b, w)
                      /\ Len(NumeralOf(a, b, w)) \in 1..w
          /\ NumeralOf(a, b, w) \in Seq(Nat)
        BY <2>1, DigitsAreNumeral
    <2>3. /\ a > 0 => /\ Reverse(LowDigits(a, b)) = NumeralOf(a, b, v)
                      /\ Len(NumeralOf(a, b, v)) \in 1..v
        BY <2>1, DigitsAreNumeral
    <2>4. CASE n = 0
        <3>1. NumeralOf(a, b, w) = <<0>> /\ a = n
            BY <1>5, <1>7, <2>4
        <3>2. Len(NumeralOf(a, b, w)) + 1 <= w
            BY <1>8, <3>1
        <3>3. NumeralOf(n, b, w) = <<0>>
            BY <3>1
        <3> QED BY <1>5, <2>2, <2>4, <3>2, <3>3 DEF ReadsSigned
    <2>5. CASE n # 0
        <3>1. a > 0
            BY <1>5, <2>5
        <3>2. Len(NumeralOf(a, b, w)) + 1 <= w
            BY <1>0, <2>2, <2>3, <3>1
        <3> QED BY <1>1, <1>5, <1>6, <2>2, <2>5, <3>1, <3>2 DEF ReadsSigned
    <2> QED BY <2>4, <2>5
<1> QED BY <1>9, <1>10

(***************************************************************************)
(* A sign in front.                                                        *)
(***************************************************************************)
LEMMA Signed ==
    ASSUME NEW s \in Seq(Nat)
    PROVE  /\ <<>> \o s = s
           /\ s \in Seq(Int)
           /\ <<-1>> \o s \in Seq(Int)
           /\ Len(<<-1>> \o s) = 1 + Len(s)
<1>1. s \in Seq(Int)
    <2>1. Nat \subseteq Int
        OBVIOUS
    <2> QED BY <2>1, SeqMonotonic
<1>2. <<-1>> \in Seq(Int) /\ Len(<<-1>>) = 1
    OBVIOUS
<1>3. <<-1>> \o s \in Seq(Int) /\ Len(<<-1>> \o s) = 1 + Len(s)
    BY <1>1, <1>2, ConcatProperties
<1>4. <<>> \o s = s
    BY ConcatEmptySeq
<1> QED BY <1>1, <1>3, <1>4
=============================================================================
