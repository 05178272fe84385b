---------------------------- MODULE QueuesProofs ----------------------------
(***************************************************************************)
(* Proofs about the lists of sys/queue.h, for any number of heads and      *)
(* elements and for all five families.                                     *)
(***************************************************************************)
EXTENDS MCQueues, CommonLemmas, FiniteSetTheorems

-----------------------------------------------------------------------------
(***************************************************************************)
(* What Links says of one list: q is the sequence, h its head. The same of *)
(* pointers of any other lists, which end in nil.                          *)
(***************************************************************************)
At(h, q, i) == IF i = 0 THEN h ELSE q[i]
Spells(nx, h, q, nil) ==
    \A i \in 0..Len(q) : nx[At(h, q, i)] = IF i = Len(q) THEN nil ELSE q[i + 1]
Chain(nx, h, q) == Spells(nx, h, q, NULL)
Back(pv, h, q) == \A i \in 1..Len(q) : pv[q[i]] = At(h, q, i - 1)
Distinct(q) == \A i, j \in DOMAIN q : q[i] = q[j] => i = j

(***************************************************************************)
(* Sequence r is q with e put behind its element i; r is q without its     *)
(* element i.                                                              *)
(***************************************************************************)
InsertedIn(S, q, i, e, r) ==
    /\ r \in Seq(S) /\ Len(r) = Len(q) + 1
    /\ \A j \in 1..i : r[j] = q[j]
    /\ r[i + 1] = e
    /\ \A j \in (i + 1)..Len(q) : r[j + 1] = q[j]
RemovedIn(S, q, i, r) ==
    /\ r \in Seq(S) /\ Len(r) = Len(q) - 1
    /\ \A j \in 1..(Len(q) - 1) : r[j] = IF j < i THEN q[j] ELSE q[j + 1]
Inserted(q, i, e, r) == InsertedIn(Elems, q, i, e, r)
Removed(q, i, r) == RemovedIn(Elems, q, i, r)

(***************************************************************************)
(* The cells of a list are pairwise different.                             *)
(***************************************************************************)
LEMMA SpeltApart ==
    ASSUME NEW H, NEW E, H \cap E = {}, NEW h \in H, NEW q \in Seq(E), Distinct(q)
    PROVE  /\ Len(q) \in Nat /\ DOMAIN q = 1..Len(q)
           /\ \A i \in 1..Len(q) : q[i] \in E
           /\ \A i \in 0..Len(q) : At(h, q, i) \in H \cup E
           /\ \A i, j \in 0..Len(q) : At(h, q, i) = At(h, q, j) => i = j
BY DEF At, Distinct

(***************************************************************************)
(* The same of the cells of Queues.                                        *)
(***************************************************************************)
LEMMA CellsDiffer ==
    ASSUME NEW h \in Heads, NEW q \in Seq(Elems), Distinct(q)
    PROVE  /\ Len(q) \in Nat /\ DOMAIN q = 1..Len(q)
           /\ \A i \in 1..Len(q) : q[i] \in Elems
           /\ \A i \in 0..Len(q) : At(h, q, i) \in Cell
           /\ \A i, j \in 0..Len(q) : At(h, q, i) = At(h, q, j) => i = j
BY SpeltApart, CellAssumption DEF Cell

(***************************************************************************)
(* Putting e behind cell i of a list: the pointers spell the longer list.  *)
(***************************************************************************)
LEMMA SpellsInsert ==
    ASSUME NEW H, NEW E, NEW nil, H \cap E = {}, NEW h \in H, NEW q \in Seq(E), Distinct(q),
           NEW nx \in [H \cup E -> E \cup {nil}], Spells(nx, h, q, nil),
           NEW e \in E, \A j \in 1..Len(q) : q[j] # e,
           NEW i \in 0..Len(q), NEW r, InsertedIn(E, q, i, e, r)
    PROVE  Spells([nx EXCEPT ![e] = nx[At(h, q, i)], ![At(h, q, i)] = e], h, r, nil)
<1> DEFINE c == At(h, q, i)
           ny == [nx EXCEPT ![e] = nx[c], ![c] = e]
<1>1. /\ Len(q) \in Nat
      /\ \A j \in 1..Len(q) : q[j] \in E
      /\ \A j \in 0..Len(q) : At(h, q, j) \in H \cup E
      /\ \A j \in 0..Len(q) : At(h, q, j) = c => j = i
    BY SpeltApart
<1>2. /\ e \in H \cup E /\ c \in H \cup E /\ c # e
      /\ \A j \in 0..Len(q) : At(h, q, j) # e
    BY <1>1 DEF At
<1>3. /\ ny[e] = nx[c] /\ ny[c] = e
      /\ \A x \in H \cup E : x # e /\ x # c => ny[x] = nx[x]
    BY <1>2
<1> HIDE DEF ny
<1> SUFFICES ASSUME NEW j \in 0..Len(r)
             PROVE  ny[At(h, r, j)] = IF j = Len(r) THEN nil ELSE r[j + 1]
    BY DEF Spells, ny
<1>4. Len(r) = Len(q) + 1
    BY DEF InsertedIn
<1>5. CASE j < i
    <2>1. At(h, r, j) = At(h, q, j) /\ j \in 0..Len(q) /\ j # i /\ j # Len(r) /\ j # Len(q)
        BY <1>1, <1>4, <1>5 DEF At, InsertedIn
    <2>2. r[j + 1] = q[j + 1]
        BY <1>1, <1>5 DEF InsertedIn
    <2>3. ny[At(h, q, j)] = nx[At(h, q, j)]
        BY <1>1, <1>2, <1>3, <2>1
    <2> QED BY <2>1, <2>2, <2>3 DEF Spells
<1>6. CASE j = i
    <2>1. At(h, r, j) = c /\ r[j + 1] = e /\ j # Len(r)
        BY <1>1, <1>4, <1>6 DEF At, InsertedIn
    <2> QED BY <1>3, <2>1
<1>7. CASE j = i + 1
    <2>1. At(h, r, j) = e
        BY <1>1, <1>7 DEF At, InsertedIn
    <2>2. nx[c] = IF i = Len(q) THEN nil ELSE q[i + 1]
        BY DEF Spells
    <2>3. i # Len(q) => r[j + 1] = q[i + 1]
        BY <1>1, <1>7 DEF InsertedIn
    <2>4. CASE i = Len(q)
        <3>1. j = Len(r)
            BY <1>4, <1>7, <2>4
        <3> QED BY <1>3, <2>1, <2>2, <2>4, <3>1
    <2>5. CASE i # Len(q)
        <3>1. j # Len(r)
            BY <1>1, <1>4, <1>7, <2>5
        <3> QED BY <1>3, <2>1, <2>2, <2>3, <2>5, <3>1
    <2> QED BY <2>4, <2>5
<1>8. CASE j > i + 1
    <2>1. /\ j - 1 \in (i + 1)..Len(q) /\ j - 1 \in 0..Len(q) /\ j - 1 # i /\ j # 0 /\ j - 1 # 0
          /\ (j - 1) + 1 = j /\ (j = Len(r) <=> j - 1 = Len(q))
        BY <1>1, <1>4, <1>8
    <2>2. At(h, r, j) = At(h, q, j - 1)
        BY <2>1 DEF At, InsertedIn
    <2>3. j # Len(r) => r[j + 1] = q[j]
        <3>1. j # Len(r) => j \in (i + 1)..Len(q)
            BY <1>1, <1>4, <1>8
        <3> QED BY <3>1 DEF InsertedIn
    <2>4. ny[At(h, q, j - 1)] = nx[At(h, q, j - 1)]
        BY <1>1, <1>2, <1>3, <2>1
    <2> QED BY <2>1, <2>2, <2>3, <2>4 DEF Spells
<1> QED BY <1>1, <1>4, <1>5, <1>6, <1>7, <1>8

(***************************************************************************)
(* The same of the lists of Queues, whose pointers end in NULL.            *)
(***************************************************************************)
LEMMA ChainInsert ==
    ASSUME NEW h \in Heads, NEW q \in Seq(Elems), Distinct(q),
           NEW nx \in [Cell -> Elems \cup {NULL}], Chain(nx, h, q),
           NEW e \in Elems, \A j \in 1..Len(q) : q[j] # e,
           NEW i \in 0..Len(q), NEW r, Inserted(q, i, e, r)
    PROVE  Chain([nx EXCEPT ![e] = nx[At(h, q, i)], ![At(h, q, i)] = e], h, r)
BY SpellsInsert, CellAssumption DEF Chain, Inserted, Cell

(***************************************************************************)
(* The back pointers after the same step.                                  *)
(***************************************************************************)
LEMMA BackInsert ==
    ASSUME NEW h \in Heads, NEW q \in Seq(Elems), Distinct(q),
           NEW nx \in [Cell -> Elems \cup {NULL}], Chain(nx, h, q),
           NEW pv, Back(pv, h, q),
           NEW e \in Elems, \A j \in 1..Len(q) : q[j] # e,
           NEW i \in 0..Len(q), NEW r, Inserted(q, i, e, r)
    PROVE  Back([x \in Elems |-> IF x = e THEN At(h, q, i)
                                 ELSE IF x = nx[At(h, q, i)] THEN e ELSE pv[x]], h, r)
<1> DEFINE c == At(h, q, i)
           py == [x \in Elems |-> IF x = e THEN c ELSE IF x = nx[c] THEN e ELSE pv[x]]
<1>1. /\ Len(q) \in Nat /\ Len(r) = Len(q) + 1 /\ i \in 0..Len(q)
      /\ \A j \in 1..Len(q) : q[j] \in Elems
    BY CellsDiffer DEF Inserted, InsertedIn
<1>2. nx[c] = IF i = Len(q) THEN NULL ELSE q[i + 1]
    BY DEF Chain, Spells
<1> SUFFICES ASSUME NEW j \in 1..Len(r) PROVE py[r[j]] = At(h, r, j - 1)
    BY DEF Back
<1>3. CASE j <= i
    <2>1. j \in 1..Len(q) /\ r[j] = q[j] /\ At(h, r, j - 1) = At(h, q, j - 1)
        BY <1>1, <1>3 DEF Inserted, InsertedIn, At
    <2>2. q[j] # nx[c]
        BY <1>1, <1>2, <1>3, <2>1, CellAssumption DEF Distinct
    <2> QED BY <1>1, <2>1, <2>2 DEF Back
<1>4. CASE j = i + 1
    <2>1. r[j] = e /\ At(h, r, j - 1) = c
        BY <1>1, <1>4 DEF Inserted, InsertedIn, At
    <2> QED BY <2>1
<1>5. CASE j = i + 2
    <2>1. i # Len(q) /\ i + 1 \in 1..Len(q)
        BY <1>1, <1>5
    <2>2. r[j] = q[i + 1] /\ At(h, r, j - 1) = e
        BY <1>1, <1>5, <2>1 DEF Inserted, InsertedIn, At
    <2> QED BY <1>1, <1>2, <2>1, <2>2
<1>6. CASE j > i + 2
    <2>1. /\ j - 1 \in (i + 1)..Len(q) /\ j - 1 \in 1..Len(q) /\ j - 2 \in (i + 1)..Len(q)
          /\ (j - 1) + 1 = j /\ (j - 2) + 1 = j - 1 /\ j - 1 # i + 1 /\ (j - 1) - 1 = j - 2
          /\ j - 2 # 0 /\ j - 1 # 0 /\ i + 1 \in 1..Len(q)
        BY <1>1, <1>6
    <2>2. r[j] = q[j - 1] /\ r[j - 1] = q[j - 2]
        BY <2>1 DEF Inserted, InsertedIn
    <2>3. At(h, r, j - 1) = At(h, q, (j - 1) - 1)
        BY <2>1, <2>2 DEF At
    <2>4. q[j - 1] # nx[c] /\ q[j - 1] # e
        BY <1>1, <1>2, <2>1, CellAssumption DEF Distinct
    <2> QED BY <1>1, <2>1, <2>2, <2>3, <2>4 DEF Back
<1> QED BY <1>1, <1>3, <1>4, <1>5, <1>6

(***************************************************************************)
(* Taking element i out of a list: the cell in front of it points to what  *)
(* was behind it, and the back pointer of that to the cell.                *)
(***************************************************************************)
LEMMA SpellsRemove ==
    ASSUME NEW H, NEW E, NEW nil, H \cap E = {}, NEW h \in H, NEW q \in Seq(E), Distinct(q),
           NEW nx \in [H \cup E -> E \cup {nil}], Spells(nx, h, q, nil),
           NEW i \in 1..Len(q), NEW r, RemovedIn(E, q, i, r)
    PROVE  Spells([nx EXCEPT ![At(h, q, i - 1)] = nx[q[i]]], h, r, nil)
<1> DEFINE c == At(h, q, i - 1)
           ny == [nx EXCEPT ![c] = nx[q[i]]]
<1>1. /\ Len(q) \in Nat /\ Len(r) = Len(q) - 1 /\ i \in 1..Len(q) /\ i - 1 \in 0..Len(q)
      /\ \A j \in 0..Len(q) : At(h, q, j) \in H \cup E
      /\ \A j \in 0..Len(q) : At(h, q, j) = c => j = i - 1
    <2>1. /\ Len(q) \in Nat
          /\ \A j \in 0..Len(q) : At(h, q, j) \in H \cup E
          /\ \A j, k \in 0..Len(q) : At(h, q, j) = At(h, q, k) => j = k
        BY SpeltApart
    <2>2. Len(r) = Len(q) - 1 /\ i - 1 \in 0..Len(q)
        BY <2>1 DEF RemovedIn
    <2> QED BY <2>1, <2>2
<1>2. /\ ny[c] = nx[q[i]]
      /\ \A x \in H \cup E : x # c => ny[x] = nx[x]
    BY <1>1
<1>3. At(h, q, i) = q[i]
    BY DEF At
<1> HIDE DEF ny
<1> SUFFICES ASSUME NEW j \in 0..Len(r)
             PROVE  ny[At(h, r, j)] = IF j = Len(r) THEN nil ELSE r[j + 1]
    BY DEF Spells, ny
<1>4. CASE j < i - 1
    <2>1. /\ At(h, r, j) = At(h, q, j) /\ j \in 0..Len(q) /\ j # i - 1
          /\ j # Len(r) /\ j # Len(q)
        BY <1>1, <1>4 DEF At, RemovedIn
    <2>2. r[j + 1] = q[j + 1]
        <3>1. j + 1 \in 1..(Len(q) - 1) /\ j + 1 < i
            BY <1>1, <1>4
        <3> QED BY <3>1 DEF RemovedIn
    <2>3. ny[At(h, q, j)] = nx[At(h, q, j)]
        BY <1>1, <1>2, <2>1
    <2> QED BY <2>1, <2>2, <2>3 DEF Spells
<1>5. CASE j = i - 1
    <2>1. At(h, r, j) = c
        BY <1>1, <1>5 DEF At, RemovedIn
    <2>2. nx[q[i]] = IF i = Len(q) THEN nil ELSE q[i + 1]
        BY <1>1, <1>3 DEF Spells
    <2>3. CASE i = Len(q)
        <3>1. j = Len(r)
            BY <1>1, <1>5, <2>3
        <3> QED BY <1>2, <2>1, <2>2, <2>3, <3>1
    <2>4. CASE i # Len(q)
        <3>1. j # Len(r) /\ r[j + 1] = q[i + 1]
            BY <1>1, <1>5, <2>4 DEF RemovedIn
        <3> QED BY <1>2, <2>1, <2>2, <2>4, <3>1
    <2> QED BY <2>3, <2>4
<1>6. CASE j > i - 1
    <2>1. /\ j \in 1..(Len(q) - 1) /\ j + 1 \in 0..Len(q) /\ j + 1 # i - 1
          /\ ~(j < i) /\ j + 1 # 0 /\ j # 0 /\ (j = Len(r) <=> j + 1 = Len(q))
        BY <1>1, <1>6
    <2>2. At(h, r, j) = At(h, q, j + 1)
        BY <2>1 DEF At, RemovedIn
    <2>3. j # Len(r) => r[j + 1] = q[(j + 1) + 1]
        <3>1. j # Len(r) => j + 1 \in 1..(Len(q) - 1) /\ ~(j + 1 < i)
            BY <1>1, <1>6
        <3> QED BY <3>1 DEF RemovedIn
    <2>4. ny[At(h, q, j + 1)] = nx[At(h, q, j + 1)]
        BY <1>1, <1>2, <2>1
    <2> QED BY <2>1, <2>2, <2>3, <2>4 DEF Spells
<1> QED BY <1>1, <1>4, <1>5, <1>6

(***************************************************************************)
(* The same of the lists of Queues, whose pointers end in NULL.            *)
(***************************************************************************)
LEMMA ChainRemove ==
    ASSUME NEW h \in Heads, NEW q \in Seq(Elems), Distinct(q),
           NEW nx \in [Cell -> Elems \cup {NULL}], Chain(nx, h, q),
           NEW i \in 1..Len(q), NEW r, Removed(q, i, r)
    PROVE  Chain([nx EXCEPT ![At(h, q, i - 1)] = nx[q[i]]], h, r)
BY SpellsRemove, CellAssumption DEF Chain, Removed, Cell

(***************************************************************************)
(* REMOVE: the element behind the removed one takes over its pointer back. *)
(***************************************************************************)
LEMMA BackRemove ==
    ASSUME NEW h \in Heads, NEW q \in Seq(Elems), Distinct(q),
           NEW nx \in [Cell -> Elems \cup {NULL}], Chain(nx, h, q),
           NEW pv, Back(pv, h, q),
           NEW i \in 1..Len(q), NEW r, Removed(q, i, r)
    PROVE  Back([x \in Elems |-> IF x = nx[q[i]] THEN At(h, q, i - 1) ELSE pv[x]], h, r)
<1> DEFINE c == At(h, q, i - 1)
           py == [x \in Elems |-> IF x = nx[q[i]] THEN c ELSE pv[x]]
<1>1. /\ Len(q) \in Nat /\ Len(r) = Len(q) - 1 /\ i \in 1..Len(q)
      /\ \A j \in 1..Len(q) : q[j] \in Elems
    BY CellsDiffer DEF Removed, RemovedIn
<1>2. nx[q[i]] = IF i = Len(q) THEN NULL ELSE q[i + 1]
    BY <1>1 DEF Chain, Spells, At
<1> SUFFICES ASSUME NEW j \in 1..Len(r) PROVE py[r[j]] = At(h, r, j - 1)
    BY DEF Back
<1>3. CASE j < i
    <2>1. j \in 1..Len(q) /\ r[j] = q[j] /\ At(h, r, j - 1) = At(h, q, j - 1)
        BY <1>1, <1>3 DEF Removed, RemovedIn, At
    <2>2. q[j] # nx[q[i]]
        <3>1. i # Len(q) => i + 1 \in 1..Len(q) /\ i + 1 # j
            BY <1>1, <1>3
        <3>2. q[j] # NULL
            BY <1>1, <2>1, CellAssumption
        <3> QED BY <1>1, <1>2, <2>1, <3>1, <3>2 DEF Distinct
    <2> QED BY <1>1, <2>1, <2>2 DEF Back
<1>4. CASE j = i
    <2>1. i + 1 \in 1..Len(q) /\ i # Len(q)
        BY <1>1, <1>4
    <2>2. r[j] = q[i + 1] /\ At(h, r, j - 1) = c
        BY <1>1, <1>4 DEF Removed, RemovedIn, At
    <2> QED BY <1>1, <1>2, <2>1, <2>2
<1>5. CASE j > i
    <2>1. /\ j \in 1..(Len(q) - 1) /\ j - 1 \in 1..(Len(q) - 1) /\ ~(j < i) /\ ~(j - 1 < i)
          /\ j + 1 \in 1..Len(q) /\ (j - 1) + 1 = j /\ (j + 1) - 1 = j /\ j # 0 /\ j - 1 # 0
          /\ j + 1 # i + 1
        BY <1>1, <1>5
    <2>2. r[j] = q[j + 1] /\ r[j - 1] = q[j]
        BY <2>1 DEF Removed, RemovedIn
    <2>3. At(h, r, j - 1) = At(h, q, (j + 1) - 1)
        BY <2>1, <2>2 DEF At
    <2>4. q[j + 1] # nx[q[i]]
        BY <1>1, <1>2, <2>1, CellAssumption DEF Distinct
    <2> QED BY <1>1, <2>1, <2>2, <2>3, <2>4 DEF Back
<1> QED BY <1>1, <1>3, <1>4, <1>5

(***************************************************************************)
(* Sequence r is q followed by s.                                          *)
(***************************************************************************)
Hung(q, s, r) ==
    /\ r \in Seq(Elems) /\ Len(r) = Len(q) + Len(s)
    /\ \A j \in 1..Len(q) : r[j] = q[j]
    /\ \A j \in 1..Len(s) : r[Len(q) + j] = s[j]

(***************************************************************************)
(* CONCAT makes one list of the two.                                       *)
(***************************************************************************)
LEMMA HungConcat ==
    ASSUME NEW q \in Seq(Elems), NEW s \in Seq(Elems)
    PROVE  Hung(q, s, q \o s)
<1> DEFINE r == q \o s
           n == Len(q)
           m == Len(s)
<1>1. n \in Nat /\ m \in Nat
    OBVIOUS
<1>2. /\ r \in Seq(Elems) /\ Len(r) = n + m
      /\ \A j \in 1..(n + m) : r[j] = IF j <= n THEN q[j] ELSE s[j - n]
    BY ConcatProperties
<1> HIDE DEF r, n, m
<1>3. \A j \in 1..n : j \in 1..(n + m) /\ j <= n
    BY <1>1
<1>4. \A j \in 1..m : (n + j) \in 1..(n + m) /\ ~(n + j <= n) /\ (n + j) - n = j
    BY <1>1
<1>5. \A j \in 1..m : r[n + j] = s[j]
    BY <1>2, <1>4
<1>6. \A j \in 1..n : r[j] = q[j]
    BY <1>2, <1>3
<1> QED BY <1>2, <1>5, <1>6 DEF Hung, r, n, m

(***************************************************************************)
(* Each place of r is a place of q or, moved by q's length, one of s.      *)
(***************************************************************************)
LEMMA HungPlaces ==
    ASSUME NEW q \in Seq(Elems), NEW s \in Seq(Elems), NEW r, Hung(q, s, r),
           NEW k \in DOMAIN r
    PROVE  \/ k \in DOMAIN q /\ r[k] = q[k]
           \/ /\ k \notin DOMAIN q /\ (k - Len(q)) \in DOMAIN s
              /\ r[k] = s[k - Len(q)] /\ Len(q) + (k - Len(q)) = k
<1>1. /\ Len(q) \in Nat /\ Len(s) \in Nat /\ DOMAIN q = 1..Len(q) /\ DOMAIN s = 1..Len(s)
      /\ k \in 1..(Len(q) + Len(s))
    BY DEF Hung
<1>2. CASE k <= Len(q)
    BY <1>1, <1>2 DEF Hung
<1>3. CASE ~(k <= Len(q))
    <2>1. k - Len(q) \in 1..Len(s) /\ Len(q) + (k - Len(q)) = k /\ k \notin DOMAIN q
        BY <1>1, <1>3
    <2> QED BY <1>1, <2>1 DEF Hung
<1> QED BY <1>2, <1>3

(***************************************************************************)
(* CONCAT: the last pointer of the first list goes to the first element of *)
(* the second, whose head is emptied.                                      *)
(***************************************************************************)
LEMMA ChainConcat ==
    ASSUME NEW h \in Heads, NEW g \in Heads, NEW q \in Seq(Elems), NEW s \in Seq(Elems),
           Distinct(q), Distinct(s), Len(s) # 0,
           NEW nx \in [Cell -> Elems \cup {NULL}], Chain(nx, h, q), Chain(nx, g, s),
           \A j \in 0..Len(q), k \in 0..Len(s) : At(h, q, j) # At(g, s, k),
           NEW r, Hung(q, s, r)
    PROVE  Chain([nx EXCEPT ![At(h, q, Len(q))] = nx[g], ![g] = NULL], h, r)
<1> DEFINE c == At(h, q, Len(q))
           ny == [nx EXCEPT ![c] = nx[g], ![g] = NULL]
           n == Len(q)
           m == Len(s)
<1>1. /\ n \in Nat /\ m \in Nat /\ m # 0 /\ Len(r) = n + m
      /\ \A j \in 0..n : At(h, q, j) \in Cell
      /\ \A j \in 0..n : At(h, q, j) = c => j = n
      /\ \A j \in 0..m : At(g, s, j) \in Cell
      /\ \A j, k \in 0..m : At(g, s, j) = At(g, s, k) => j = k
    BY CellsDiffer DEF Hung
<1>2. At(g, s, 0) = g /\ nx[g] = s[1]
    BY <1>1 DEF At, Chain, Spells
<1>3. c # g /\ \A j \in 0..n : At(h, q, j) # g
    BY <1>1, <1>2
<1>4. /\ ny[c] = s[1] /\ ny[g] = NULL
      /\ \A x \in Cell : x # c /\ x # g => ny[x] = nx[x]
    BY <1>1, <1>2, <1>3 DEF Cell
<1>5. /\ \A j \in 1..n : r[j] = q[j]
      /\ \A j \in 1..m : r[n + j] = s[j]
      /\ \A j \in 0..n : nx[At(h, q, j)] = IF j = n THEN NULL ELSE q[j + 1]
      /\ \A j \in 0..m : nx[At(g, s, j)] = IF j = m THEN NULL ELSE s[j + 1]
      /\ \A j \in 0..n, k \in 0..m : At(h, q, j) # At(g, s, k)
    BY DEF Hung, Chain, Spells
<1> SUFFICES Chain(ny, h, r)
    OBVIOUS
<1> HIDE DEF ny, n, m
<1> SUFFICES ASSUME NEW j \in 0..(n + m)
             PROVE  ny[At(h, r, j)] = IF j = n + m THEN NULL ELSE r[j + 1]
    BY <1>1 DEF Chain, Spells
<1>6. CASE j < n
    <2>1. /\ j \in 0..n /\ j # n /\ (j # 0 => j \in 1..n)
          /\ j + 1 \in 1..n /\ j # n + m
        BY <1>1, <1>6
    <2>2. At(h, r, j) = At(h, q, j) /\ r[j + 1] = q[j + 1]
        BY <1>5, <2>1 DEF At
    <2>3. nx[At(h, q, j)] = q[j + 1]
        BY <1>5, <2>1
    <2>4. ny[At(h, q, j)] = nx[At(h, q, j)]
        BY <1>1, <1>3, <1>4, <2>1
    <2> QED BY <2>1, <2>2, <2>3, <2>4
<1>7. CASE j = n
    <2>1. (n # 0 => n \in 1..n) /\ n # n + m /\ 1 \in 1..m
        BY <1>1
    <2>2. At(h, r, n) = c
        BY <1>5, <2>1 DEF At, n
    <2>3. r[n + 1] = s[1]
        BY <1>5, <2>1
    <2> QED BY <1>4, <1>7, <2>1, <2>2, <2>3
<1>8. CASE j > n
    <2> DEFINE k == j - n
    <2>1. /\ k \in 1..m /\ k \in 0..m /\ n + k = j /\ j # 0 /\ k # 0
          /\ (j = n + m <=> k = m) /\ (k # m => k + 1 \in 1..m)
          /\ n + (k + 1) = j + 1 /\ n \in 0..n /\ 0 \in 0..m
        BY <1>1, <1>8
    <2> HIDE DEF k
    <2>2. At(h, r, j) = At(g, s, k)
        BY <1>5, <2>1 DEF At
    <2>3. nx[At(g, s, k)] = IF k = m THEN NULL ELSE s[k + 1]
        BY <1>5, <2>1
    <2>4. At(g, s, k) # c /\ At(g, s, k) # g /\ At(g, s, k) \in Cell
        BY <1>1, <1>2, <1>5, <2>1 DEF n
    <2>5. k # m => r[j + 1] = s[k + 1]
        BY <1>5, <2>1
    <2> QED BY <1>4, <2>1, <2>2, <2>3, <2>4, <2>5
<1> QED BY <1>1, <1>6, <1>7, <1>8

(***************************************************************************)
(* TAILQ_CONCAT: the first element of the second list points back at the   *)
(* last pointer of the first.                                              *)
(***************************************************************************)
LEMMA BackConcat ==
    ASSUME NEW h \in Heads, NEW g \in Heads, NEW q \in Seq(Elems), NEW s \in Seq(Elems),
           Distinct(s), Len(s) # 0,
           NEW pv \in [Elems -> Cell \cup {NULL}], Back(pv, h, q), Back(pv, g, s),
           \A j \in DOMAIN q, k \in DOMAIN s : q[j] # s[k],
           NEW r, Hung(q, s, r)
    PROVE  Back([pv EXCEPT ![s[1]] = At(h, q, Len(q))], h, r)
<1> DEFINE c == At(h, q, Len(q))
           py == [pv EXCEPT ![s[1]] = c]
           n == Len(q)
           m == Len(s)
<1>1. /\ n \in Nat /\ m \in Nat /\ m # 0 /\ Len(r) = n + m
      /\ 1 \in 1..m
      /\ DOMAIN q = 1..n /\ DOMAIN s = 1..m
      /\ \A j \in 1..n : q[j] \in Elems
      /\ \A j \in 1..m : s[j] \in Elems
    BY DEF Hung
<1>2. /\ py[s[1]] = c
      /\ \A x \in Elems : x # s[1] => py[x] = pv[x]
    BY <1>1
<1>3. /\ \A j \in 1..n : r[j] = q[j]
      /\ \A j \in 1..m : r[n + j] = s[j]
      /\ \A j \in 1..n : pv[q[j]] = At(h, q, j - 1)
      /\ \A j \in 1..m : pv[s[j]] = At(g, s, j - 1)
    BY DEF Hung, Back
<1>4. /\ \A j \in 1..n : q[j] # s[1]
      /\ \A j \in 1..m : s[j] = s[1] => j = 1
    BY <1>1 DEF Distinct
<1> SUFFICES ASSUME NEW j \in 1..(n + m) PROVE py[r[j]] = At(h, r, j - 1)
    BY <1>1 DEF Back
<1> HIDE DEF py, n, m
<1>5. CASE j <= n
    <2>1. j \in 1..n /\ (j - 1 # 0 => j - 1 \in 1..n)
        BY <1>1, <1>5
    <2>2. r[j] = q[j] /\ At(h, r, j - 1) = At(h, q, j - 1)
        BY <1>3, <2>1 DEF At
    <2> QED BY <1>1, <1>2, <1>3, <1>4, <2>1, <2>2
<1>6. CASE j = n + 1
    <2>1. (n # 0 => n \in 1..n) /\ j - 1 = n
        BY <1>1, <1>6
    <2>2. r[j] = s[1]
        BY <1>1, <1>3, <1>6
    <2>3. At(h, r, n) = c
        BY <1>3, <2>1 DEF At, n
    <2> QED BY <1>2, <2>1, <2>2, <2>3
<1>7. CASE j > n + 1
    <2> DEFINE k == j - n
    <2>1. /\ k \in 1..m /\ n + k = j /\ j - 1 # 0 /\ k # 1 /\ k - 1 \in 1..m
          /\ k - 1 # 0 /\ n + (k - 1) = j - 1
        BY <1>1, <1>7
    <2> HIDE DEF k
    <2>2. r[j] = s[k] /\ r[j - 1] = s[k - 1]
        BY <1>3, <2>1
    <2>3. pv[s[k]] = s[k - 1]
        BY <1>3, <2>1 DEF At
    <2>4. py[s[k]] = pv[s[k]]
        BY <1>1, <1>2, <1>4, <2>1
    <2> QED BY <2>1, <2>2, <2>3, <2>4 DEF At
<1> QED BY <1>1, <1>5, <1>6, <1>7

-----------------------------------------------------------------------------
(***************************************************************************)
(* Links, list by list.                                                    *)
(***************************************************************************)
ListOK(h) ==
    /\ Chain(next, h, list[h])
    /\ HasPrev => Back(prev, h, list[h])
    /\ HasLast => last[h] = At(h, list[h], Len(list[h]))

(***************************************************************************)
(* Links is a statement about each list.                                   *)
(***************************************************************************)
LEMMA LinksByList ==
    /\ Links <=> \A h \in Heads : ListOK(h)
    /\ Links' <=> \A h \in Heads : ListOK(h)'
BY DEF Links, ListOK, CellAt, At, Chain, Spells, Back, HasPrev, HasLast

(***************************************************************************)
(* Elements are on one list at most: the cells of two lists differ, and an *)
(* element on no list is none of them.                                     *)
(***************************************************************************)
LEMMA ListsApart ==
    ASSUME TypeOK
    PROVE  /\ \A h \in Heads : /\ list[h] \in Seq(Elems) /\ Distinct(list[h])
                                /\ Len(list[h]) \in Nat /\ DOMAIN list[h] = 1..Len(list[h])
                                /\ \A j \in 1..Len(list[h]) : list[h][j] \in Elems
           /\ \A h, g \in Heads : h # g =>
                 \A i \in 0..Len(list[h]), j \in 0..Len(list[g]) :
                    At(h, list[h], i) # At(g, list[g], j)
           /\ \A e \in Elems : ~OnList(e) =>
                 \A h \in Heads : /\ \A j \in 1..Len(list[h]) : list[h][j] # e
                                  /\ \A j \in 0..Len(list[h]) : At(h, list[h], j) # e
<1>1. \A h \in Heads : /\ list[h] \in Seq(Elems) /\ Distinct(list[h])
                       /\ Len(list[h]) \in Nat /\ DOMAIN list[h] = 1..Len(list[h])
                       /\ \A j \in 1..Len(list[h]) : list[h][j] \in Elems
    BY DEF TypeOK, Distinct
<1>2. \A h, g \in Heads : h # g =>
         \A i \in 0..Len(list[h]), j \in 0..Len(list[g]) :
            At(h, list[h], i) # At(g, list[g], j)
    <2> SUFFICES ASSUME NEW h \in Heads, NEW g \in Heads, h # g,
                        NEW i \in 0..Len(list[h]), NEW j \in 0..Len(list[g])
                 PROVE  At(h, list[h], i) # At(g, list[g], j)
        OBVIOUS
    <2>1. i # 0 => i \in DOMAIN list[h] /\ list[h][i] \in Elems
        BY <1>1
    <2>2. j # 0 => j \in DOMAIN list[g] /\ list[g][j] \in Elems
        BY <1>1
    <2> QED BY <2>1, <2>2, CellAssumption DEF At, TypeOK
<1>3. ASSUME NEW e \in Elems, ~OnList(e), NEW h \in Heads
      PROVE  /\ \A j \in 1..Len(list[h]) : list[h][j] # e
             /\ \A j \in 0..Len(list[h]) : At(h, list[h], j) # e
    <2>1. \A j \in 1..Len(list[h]) : list[h][j] # e
        BY <1>1, <1>3 DEF OnList, Range
    <2> QED BY <1>1, <2>1, CellAssumption DEF At
<1> QED BY <1>1, <1>2, <1>3

(***************************************************************************)
(* A list none of whose cells a step writes stays as it was.               *)
(***************************************************************************)
LEMMA OtherList ==
    ASSUME TypeOK, NEW g \in Heads, ListOK(g), kind' = kind, list'[g] = list[g],
           \A j \in 0..Len(list[g]) : next'[At(g, list[g], j)] = next[At(g, list[g], j)],
           HasPrev => \A j \in 1..Len(list[g]) : prev'[list[g][j]] = prev[list[g][j]],
           HasLast => last'[g] = last[g]
    PROVE  ListOK(g)'
BY DEF ListOK, Chain, Spells, Back, HasPrev, HasLast

(***************************************************************************)
(* Putting an element that is on no list behind cell i of list h.          *)
(***************************************************************************)
LEMMA InsertStep ==
    ASSUME TypeOK, Links, NEW h \in Heads, NEW e \in Elems, ~OnList(e),
           NEW i \in 0..Len(list[h]), NEW r, Inserted(list[h], i, e, r),
           list' = [list EXCEPT ![h] = r], kind' = kind,
           LinkNext(CellAt(h, i), e),
           IF HasPrev THEN LinkPrev(CellAt(h, i), e) ELSE prev' = prev,
           IF HasLast THEN LinkLast(h, CellAt(h, i), e) ELSE last' = last
    PROVE  TypeOK' /\ Links'
<1> DEFINE q == list[h]
           c == At(h, q, i)
<1>1. c = CellAt(h, i)
    BY DEF At, CellAt
<1>2. /\ q \in Seq(Elems) /\ Distinct(q) /\ Len(q) \in Nat
      /\ \A j \in 1..Len(q) : q[j] \in Elems /\ q[j] # e
      /\ \A j \in 0..Len(q) : At(h, q, j) # e
    BY ListsApart
<1>3. c \in Cell /\ e \in Cell /\ c # e
    BY <1>2, CellsDiffer DEF Cell
<1>4. ListOK(h)
    BY LinksByList
<1>5. next \in [Cell -> Elems \cup {NULL}]
    BY DEF TypeOK
<1>6. r \in Seq(Elems) /\ Len(r) = Len(q) + 1 /\ DOMAIN r = 1..(Len(q) + 1)
    BY <1>2 DEF Inserted, InsertedIn
<1>7. next[c] = IF i = Len(q) THEN NULL ELSE q[i + 1]
    BY <1>4 DEF ListOK, Chain, Spells
<1>8. ListOK(h)'
    <2>1. list'[h] = r
        BY DEF TypeOK
    <2>2. Chain(next', h, r)
        <3>1. next' = [next EXCEPT ![e] = next[c], ![c] = e]
            BY <1>1 DEF LinkNext
        <3> QED BY <1>2, <1>4, <1>5, <3>1, ChainInsert DEF ListOK
    <2>3. HasPrev => Back(prev', h, r)
        <3>1. HasPrev => prev' = [x \in Elems |-> IF x = e THEN c
                                    ELSE IF x = next[c] THEN e ELSE prev[x]]
            BY <1>1 DEF LinkPrev
        <3> QED BY <1>2, <1>4, <1>5, <3>1, BackInsert DEF ListOK
    <2>4. HasLast => last'[h] = At(h, r, Len(r))
        <3> SUFFICES ASSUME HasLast PROVE last'[h] = At(h, r, Len(r))
            OBVIOUS
        <3>1. last' = IF next[c] = NULL THEN [last EXCEPT ![h] = e] ELSE last
            BY <1>1 DEF LinkLast
        <3>2. CASE i = Len(q)
            <4>1. At(h, r, Len(r)) = e
                BY <1>2, <1>6, <3>2 DEF At, Inserted, InsertedIn
            <4> QED BY <1>7, <3>1, <3>2, <4>1 DEF TypeOK
        <3>3. CASE i # Len(q)
            <4>1. Len(q) \in (i + 1)..Len(q) /\ i + 1 \in 1..Len(q) /\ Len(r) # 0 /\ Len(q) # 0
                BY <1>2, <1>6, <3>3
            <4>2. At(h, r, Len(r)) = At(h, q, Len(q))
                BY <1>6, <4>1 DEF At, Inserted, InsertedIn
            <4>3. next[c] # NULL
                BY <1>2, <1>7, <3>3, <4>1, CellAssumption
            <4> QED BY <1>4, <3>1, <4>2, <4>3 DEF ListOK
        <3> QED BY <3>2, <3>3
    <2> QED BY <2>1, <2>2, <2>3, <2>4 DEF ListOK, HasPrev, HasLast
<1>9. ASSUME NEW g \in Heads, g # h
      PROVE  ListOK(g)'
    <2>1. /\ \A j \in 0..Len(list[g]) : At(g, list[g], j) # c /\ At(g, list[g], j) # e
          /\ \A j \in 0..Len(list[g]) : At(g, list[g], j) \in Cell
          /\ \A j \in 1..Len(list[g]) : list[g][j] \in Elems /\ list[g][j] # e
          /\ Len(list[g]) \in Nat
        BY <1>9, ListsApart, CellsDiffer
    <2>2. list'[g] = list[g]
        BY <1>9 DEF TypeOK
    <2>3. \A j \in 0..Len(list[g]) : next'[At(g, list[g], j)] = next[At(g, list[g], j)]
        BY <1>1, <1>3, <1>5, <2>1 DEF LinkNext
    <2>4. HasPrev => \A j \in 1..Len(list[g]) : prev'[list[g][j]] = prev[list[g][j]]
        <3>1. \A j \in 1..Len(list[g]) : list[g][j] # next[c]
            <4> SUFFICES ASSUME NEW j \in 1..Len(list[g]), i # Len(q), list[g][j] = q[i + 1]
                         PROVE  FALSE
                BY <1>7, <2>1, CellAssumption
            <4>1. i + 1 \in 1..Len(q)
                BY <1>2
            <4> QED BY <1>9, <4>1, ListsApart DEF TypeOK
        <3> QED BY <1>1, <2>1, <3>1 DEF LinkPrev
    <2>5. HasLast => last'[g] = last[g]
        BY <1>9 DEF LinkLast, TypeOK
    <2>6. ListOK(g)
        BY LinksByList
    <2> QED BY <2>2, <2>3, <2>4, <2>5, <2>6, OtherList
<1>10. TypeOK'
    <2>1. next' \in [Cell -> Elems \cup {NULL}]
        BY <1>1, <1>3, <1>5 DEF LinkNext
    <2>2. prev' \in [Elems -> Cell \cup {NULL}]
        BY <1>1, <1>3, ZenonT(40) DEF LinkPrev, TypeOK
    <2>3. last' \in [Heads -> Cell]
        BY <1>3 DEF LinkLast, TypeOK
    <2>4. list' \in [Heads -> Seq(Elems)]
        BY <1>6 DEF TypeOK
    <2>5. ASSUME NEW f \in Heads, NEW g \in Heads, NEW k \in DOMAIN list'[f],
                 NEW j \in DOMAIN list'[g], list'[f][k] = list'[g][j]
          PROVE  f = g /\ k = j
        <3> DEFINE old(m) == IF m <= i THEN m ELSE m - 1
        <3>1. ASSUME NEW m \in DOMAIN r
              PROVE  /\ m = i + 1 => r[m] = e
                     /\ m # i + 1 => old(m) \in DOMAIN q /\ r[m] = q[old(m)] /\ r[m] # e
            <4>1. CASE m <= i
                BY <1>2, <1>6, <4>1 DEF Inserted, InsertedIn
            <4>2. CASE m = i + 1
                BY <4>2 DEF Inserted, InsertedIn
            <4>3. CASE m > i + 1
                <5>1. m - 1 \in (i + 1)..Len(q) /\ m - 1 \in 1..Len(q) /\ (m - 1) + 1 = m
                    BY <1>2, <1>6, <4>3
                <5>2. r[m] = q[m - 1]
                    BY <5>1 DEF Inserted, InsertedIn
                <5> QED BY <1>2, <1>6, <4>3, <5>1, <5>2
            <4> QED BY <1>2, <1>6, <4>1, <4>2, <4>3
        <3>2. /\ list'[h] = r
              /\ \A x \in Heads : x # h => list'[x] = list[x]
              /\ \A x \in Heads : \A m \in DOMAIN list[x] : list[x][m] # e
              /\ \A x \in Heads : DOMAIN list[x] = 1..Len(list[x])
            BY ListsApart DEF TypeOK
        <3>3. CASE f = h /\ g = h
            <4>1. k \in DOMAIN r /\ j \in DOMAIN r /\ r[k] = r[j]
                BY <2>5, <3>2, <3>3
            <4>2. k # i + 1 /\ j # i + 1 => old(k) = old(j)
                BY <1>2, <3>1, <4>1 DEF Distinct
            <4> QED BY <1>2, <1>6, <3>1, <3>3, <4>1, <4>2
        <3>4. CASE f = h /\ g # h
            BY <2>5, <3>1, <3>2, <3>4 DEF TypeOK
        <3>5. CASE f # h /\ g = h
            BY <2>5, <3>1, <3>2, <3>5 DEF TypeOK
        <3>6. CASE f # h /\ g # h
            BY <2>5, <3>2, <3>6 DEF TypeOK
        <3> QED BY <3>3, <3>4, <3>5, <3>6
    <2> QED BY <2>1, <2>2, <2>3, <2>4, <2>5 DEF TypeOK
<1> QED BY <1>8, <1>9, <1>10, LinksByList

(***************************************************************************)
(* Taking element i off list h.                                            *)
(***************************************************************************)
LEMMA RemoveStep ==
    ASSUME TypeOK, Links, NEW h \in Heads,
           NEW i \in 1..Len(list[h]), NEW r, Removed(list[h], i, r),
           list' = [list EXCEPT ![h] = r], kind' = kind,
           CutNext(CellAt(h, i - 1), list[h][i]),
           IF HasPrev THEN CutPrev(CellAt(h, i - 1), list[h][i]) ELSE prev' = prev,
           IF HasLast THEN CutLast(h, CellAt(h, i - 1), list[h][i]) ELSE last' = last
    PROVE  TypeOK' /\ Links'
<1> DEFINE q == list[h]
           c == At(h, q, i - 1)
<1>1. c = CellAt(h, i - 1)
    BY DEF At, CellAt
<1>2. /\ q \in Seq(Elems) /\ Distinct(q) /\ Len(q) \in Nat /\ DOMAIN q = 1..Len(q)
      /\ \A j \in 1..Len(q) : q[j] \in Elems
      /\ i - 1 \in 0..Len(q)
    BY ListsApart
<1>3. c \in Cell /\ q[i] \in Cell
    BY <1>2, CellsDiffer DEF Cell
<1>4. ListOK(h)
    BY LinksByList
<1>5. next \in [Cell -> Elems \cup {NULL}]
    BY DEF TypeOK
<1>6. r \in Seq(Elems) /\ Len(r) = Len(q) - 1 /\ DOMAIN r = 1..(Len(q) - 1)
    BY <1>2 DEF Removed, RemovedIn
<1>7. next[q[i]] = IF i = Len(q) THEN NULL ELSE q[i + 1]
    BY <1>2, <1>4 DEF ListOK, Chain, Spells, At
<1>8. ListOK(h)'
    <2>1. list'[h] = r
        BY DEF TypeOK
    <2>2. Chain(next', h, r)
        <3>1. next' = [next EXCEPT ![c] = next[q[i]]]
            BY <1>1 DEF CutNext
        <3> QED BY <1>2, <1>4, <1>5, <3>1, ChainRemove DEF ListOK
    <2>3. HasPrev => Back(prev', h, r)
        <3> SUFFICES ASSUME HasPrev PROVE Back(prev', h, r)
            OBVIOUS
        <3>1. prev' = [x \in Elems |-> IF x = next[q[i]] THEN c ELSE prev[x]]
            BY <1>1 DEF CutPrev
        <3>2. Chain(next, h, q) /\ Back(prev, h, q)
            BY <1>4 DEF ListOK
        <3> HIDE DEF q
        <3> QED BY <1>2, <1>5, <3>1, <3>2, BackRemove DEF q
    <2>4. HasLast => last'[h] = At(h, r, Len(r))
        <3> SUFFICES ASSUME HasLast PROVE last'[h] = At(h, r, Len(r))
            OBVIOUS
        <3>1. last' = IF next[q[i]] = NULL THEN [last EXCEPT ![h] = c] ELSE last
            BY <1>1 DEF CutLast
        <3>2. CASE i = Len(q)
            <4>1. At(h, r, Len(r)) = c
                <5>1. Len(r) = i - 1
                    BY <1>6, <3>2
                <5>2. i - 1 # 0 => i - 1 \in 1..(Len(q) - 1) /\ i - 1 < i
                    BY <1>2
                <5>3. i - 1 # 0 => r[i - 1] = q[i - 1]
                    BY <5>2 DEF Removed, RemovedIn
                <5> QED BY <5>1, <5>3 DEF At
            <4> QED BY <1>7, <3>1, <3>2, <4>1 DEF TypeOK
        <3>3. CASE i # Len(q)
            <4>1. /\ i + 1 \in 1..Len(q) /\ Len(r) # 0 /\ Len(q) # 0
                  /\ Len(r) \in 1..(Len(q) - 1) /\ ~(Len(r) < i) /\ Len(r) + 1 = Len(q)
                BY <1>2, <1>6, <3>3
            <4>2. At(h, r, Len(r)) = At(h, q, Len(q))
                BY <4>1 DEF At, Removed, RemovedIn
            <4>3. next[q[i]] # NULL
                BY <1>2, <1>7, <3>3, <4>1, CellAssumption
            <4> QED BY <1>4, <3>1, <4>2, <4>3 DEF ListOK
        <3> QED BY <3>2, <3>3
    <2> QED BY <2>1, <2>2, <2>3, <2>4 DEF ListOK, HasPrev, HasLast
<1>9. ASSUME NEW g \in Heads, g # h
      PROVE  ListOK(g)'
    <2>1. /\ \A j \in 0..Len(list[g]) : At(g, list[g], j) # c
          /\ \A j \in 0..Len(list[g]) : At(g, list[g], j) \in Cell
          /\ \A j \in 1..Len(list[g]) : list[g][j] \in Elems
          /\ Len(list[g]) \in Nat
        BY <1>2, <1>9, ListsApart, CellsDiffer
    <2>2. list'[g] = list[g]
        BY <1>9 DEF TypeOK
    <2>3. \A j \in 0..Len(list[g]) : next'[At(g, list[g], j)] = next[At(g, list[g], j)]
        BY <1>1, <1>3, <1>5, <2>1 DEF CutNext
    <2>4. HasPrev => \A j \in 1..Len(list[g]) : prev'[list[g][j]] = prev[list[g][j]]
        <3>1. \A j \in 1..Len(list[g]) : list[g][j] # next[q[i]]
            <4> SUFFICES ASSUME NEW j \in 1..Len(list[g]), i # Len(q), list[g][j] = q[i + 1]
                         PROVE  FALSE
                BY <1>7, <2>1, CellAssumption
            <4>1. i + 1 \in 1..Len(q)
                BY <1>2
            <4> QED BY <1>9, <4>1, ListsApart DEF TypeOK
        <3> QED BY <1>1, <2>1, <3>1 DEF CutPrev
    <2>5. HasLast => last'[g] = last[g]
        BY <1>9 DEF CutLast, TypeOK
    <2>6. ListOK(g)
        BY LinksByList
    <2> QED BY <2>2, <2>3, <2>4, <2>5, <2>6, OtherList
<1>10. TypeOK'
    <2>1. next' \in [Cell -> Elems \cup {NULL}]
        BY <1>1, <1>3, <1>5 DEF CutNext
    <2>2. prev' \in [Elems -> Cell \cup {NULL}]
        BY <1>1, <1>3, ZenonT(40) DEF CutPrev, TypeOK
    <2>3. last' \in [Heads -> Cell]
        <3>1. CASE HasLast
            <4>1. last' = IF next[q[i]] = NULL THEN [last EXCEPT ![h] = c] ELSE last
                BY <1>1, <3>1 DEF CutLast
            <4>2. last \in [Heads -> Cell]
                BY DEF TypeOK
            <4> QED BY <1>3, <4>1, <4>2
        <3>2. CASE ~HasLast
            BY <3>2 DEF TypeOK
        <3> QED BY <3>1, <3>2
    <2>4. list' \in [Heads -> Seq(Elems)]
        BY <1>6 DEF TypeOK
    <2>5. ASSUME NEW f \in Heads, NEW g \in Heads, NEW k \in DOMAIN list'[f],
                 NEW j \in DOMAIN list'[g], list'[f][k] = list'[g][j]
          PROVE  f = g /\ k = j
        <3> DEFINE old(m) == IF m < i THEN m ELSE m + 1
        <3>1. \A m \in DOMAIN r : old(m) \in DOMAIN q /\ r[m] = q[old(m)]
            BY <1>2, <1>6, SMTT(30) DEF Removed, RemovedIn
        <3>2. /\ list'[h] = r
              /\ \A x \in Heads : x # h => list'[x] = list[x]
            BY DEF TypeOK
        <3>3. CASE f = h /\ g = h
            <4>1. k \in DOMAIN r /\ j \in DOMAIN r /\ r[k] = r[j]
                BY <2>5, <3>2, <3>3
            <4>2. old(k) = old(j)
                BY <1>2, <3>1, <4>1 DEF Distinct
            <4> QED BY <1>2, <1>6, <3>3, <4>1, <4>2
        <3>4. CASE f = h /\ g # h
            BY <2>5, <3>1, <3>2, <3>4 DEF TypeOK
        <3>5. CASE f # h /\ g = h
            <4>1. j \in DOMAIN r /\ k \in DOMAIN list[f] /\ list[f][k] = r[j]
                BY <2>5, <3>2, <3>5
            <4>2. old(j) \in DOMAIN list[h] /\ list[f][k] = list[h][old(j)]
                BY <3>1, <4>1
            <4> QED BY <3>5, <4>1, <4>2 DEF TypeOK
        <3>6. CASE f # h /\ g # h
            BY <2>5, <3>2, <3>6 DEF TypeOK
        <3> QED BY <3>3, <3>4, <3>5, <3>6
    <2> QED BY <2>1, <2>2, <2>3, <2>4, <2>5 DEF TypeOK
<1> QED BY <1>8, <1>9, <1>10, LinksByList

(***************************************************************************)
(* Element f, on no list, takes the place of element i of list h.          *)
(***************************************************************************)
LEMMA ReplaceStep ==
    ASSUME TypeOK, Links, NEW h \in Heads, NEW f \in Elems, ~OnList(f),
           NEW i \in 1..Len(list[h]), HasPrev,
           list' = [list EXCEPT ![h][i] = f], kind' = kind,
           SwapLinks(list[h][i], f),
           IF HasLast THEN last' = (IF next[list[h][i]] = NULL THEN [last EXCEPT ![h] = f]
                                    ELSE last)
                      ELSE last' = last
    PROVE  TypeOK' /\ Links'
<1> DEFINE q == list[h]
           c == At(h, q, i - 1)
           r == [q EXCEPT ![i] = f]
<1>1. /\ q \in Seq(Elems) /\ Distinct(q) /\ Len(q) \in Nat /\ DOMAIN q = 1..Len(q)
      /\ \A j \in 1..Len(q) : q[j] \in Elems /\ q[j] # f
      /\ \A j \in 0..Len(q) : At(h, q, j) # f
      /\ i - 1 \in 0..Len(q) /\ (i - 1) + 1 = i
    BY ListsApart
<1>2. ListOK(h)
    BY LinksByList
<1>3. c = prev[q[i]]
    BY <1>2 DEF ListOK, Back
<1>4. /\ c \in Cell /\ f \in Cell /\ c # f
      /\ \A j \in 0..Len(q) : At(h, q, j) \in Cell
      /\ \A j, k \in 0..Len(q) : At(h, q, j) = At(h, q, k) => j = k
    BY <1>1, CellsDiffer DEF Cell
<1>5. next[q[i]] = IF i = Len(q) THEN NULL ELSE q[i + 1]
    BY <1>1, <1>2 DEF ListOK, Chain, Spells, At
<1>6. /\ r \in Seq(Elems) /\ Len(r) = Len(q) /\ DOMAIN r = 1..Len(q)
      /\ r[i] = f /\ \A j \in 1..Len(q) : j # i => r[j] = q[j]
    BY <1>1
<1>7. list' = [list EXCEPT ![h] = r]
    OBVIOUS
<1> HIDE DEF r
<1>8. next \in [Cell -> Elems \cup {NULL}] /\ prev \in [Elems -> Cell \cup {NULL}]
    BY DEF TypeOK
<1>9. /\ next'[f] = next[q[i]] /\ next'[c] = f
      /\ \A x \in Cell : x # f /\ x # c => next'[x] = next[x]
    BY <1>3, <1>4, <1>8 DEF SwapLinks
<1>10. prev' = [x \in Elems |-> IF x = f THEN c ELSE IF x = next[q[i]] THEN f ELSE prev[x]]
    BY <1>3 DEF SwapLinks
<1>11. ListOK(h)'
    <2>1. list'[h] = r
        BY <1>7 DEF TypeOK
    <2>2. ASSUME NEW j \in 0..Len(r)
          PROVE  next'[At(h, r, j)] = IF j = Len(r) THEN NULL ELSE r[j + 1]
        <3>1. next[At(h, q, j)] = IF j = Len(q) THEN NULL ELSE q[j + 1]
            BY <1>2, <1>6 DEF ListOK, Chain, Spells
        <3>2. CASE j = i - 1
            <4>1. At(h, r, j) = c /\ j # Len(r) /\ j + 1 = i
                BY <1>1, <1>6, <3>2 DEF At
            <4> QED BY <1>6, <1>9, <4>1
        <3>3. CASE j = i
            <4>1. At(h, r, j) = f /\ (j # Len(r) => r[j + 1] = q[i + 1])
                BY <1>1, <1>6, <3>3 DEF At
            <4> QED BY <1>5, <1>6, <1>9, <3>3, <4>1
        <3>4. CASE j # i - 1 /\ j # i
            <4>1. At(h, r, j) = At(h, q, j) /\ (j # Len(r) => r[j + 1] = q[j + 1])
                BY <1>1, <1>6, <3>4, SMTT(30) DEF At
            <4>2. At(h, q, j) # c /\ At(h, q, j) # f /\ At(h, q, j) \in Cell
                BY <1>1, <1>4, <1>6, <3>4
            <4> QED BY <1>6, <1>9, <3>1, <4>1, <4>2
        <3> QED BY <3>2, <3>3, <3>4
    <2>3. ASSUME NEW j \in 1..Len(r)
          PROVE  prev'[r[j]] = At(h, r, j - 1)
        <3>1. CASE j = i
            <4>1. r[j] = f /\ At(h, r, j - 1) = c
                BY <1>1, <1>6, <3>1 DEF At
            <4> QED BY <1>10, <4>1
        <3>2. CASE j = i + 1
            <4>1. /\ r[j] = q[i + 1] /\ At(h, r, j - 1) = f /\ i # Len(q)
                  /\ i + 1 \in 1..Len(q)
                BY <1>1, <1>6, <3>2 DEF At
            <4> QED BY <1>1, <1>5, <1>10, <4>1
        <3>3. CASE j # i /\ j # i + 1
            <4>0. /\ j \in 1..Len(q) /\ (i # Len(q) => i + 1 \in 1..Len(q))
                  /\ (j - 1 # 0 => j - 1 \in 1..Len(q)) /\ j - 1 # i
                BY <1>1, <1>6, <3>3
            <4>1. /\ r[j] = q[j] /\ At(h, r, j - 1) = At(h, q, j - 1)
                  /\ j \in 1..Len(q) /\ (i # Len(q) => i + 1 \in 1..Len(q))
                BY <1>6, <3>3, <4>0 DEF At
            <4>2. q[j] # next[q[i]]
                BY <1>1, <1>5, <3>3, <4>1, CellAssumption DEF Distinct
            <4> QED BY <1>1, <1>2, <1>10, <4>1, <4>2 DEF ListOK, Back
        <3> QED BY <3>1, <3>2, <3>3
    <2>4. HasLast => last'[h] = At(h, r, Len(r))
        <3>1. CASE i = Len(q)
            <4>1. At(h, r, Len(r)) = f
                BY <1>1, <1>6, <3>1 DEF At
            <4> QED BY <1>5, <3>1, <4>1 DEF TypeOK
        <3>2. CASE i # Len(q)
            <4>1. At(h, r, Len(r)) = At(h, q, Len(q)) /\ i + 1 \in 1..Len(q)
                BY <1>1, <1>6, <3>2 DEF At
            <4>2. next[q[i]] # NULL
                BY <1>1, <1>5, <3>2, <4>1, CellAssumption
            <4> QED BY <1>2, <4>1, <4>2 DEF ListOK
        <3> QED BY <3>1, <3>2
    <2>5. Chain(next', h, r) /\ Back(prev', h, r)
        BY <2>2, <2>3 DEF Chain, Spells, Back
    <2> QED BY <2>1, <2>4, <2>5 DEF ListOK, HasPrev, HasLast
<1>12. ASSUME NEW g \in Heads, g # h
       PROVE  ListOK(g)'
    <2>1. /\ \A j \in 0..Len(list[g]) : At(g, list[g], j) # c /\ At(g, list[g], j) # f
          /\ \A j \in 0..Len(list[g]) : At(g, list[g], j) \in Cell
          /\ \A j \in 1..Len(list[g]) : list[g][j] \in Elems /\ list[g][j] # f
          /\ Len(list[g]) \in Nat
        BY <1>1, <1>12, ListsApart, CellsDiffer
    <2>2. list'[g] = list[g]
        BY <1>7, <1>12 DEF TypeOK
    <2>3. \A j \in 0..Len(list[g]) : next'[At(g, list[g], j)] = next[At(g, list[g], j)]
        BY <1>9, <2>1
    <2>4. \A j \in 1..Len(list[g]) : prev'[list[g][j]] = prev[list[g][j]]
        <3>1. \A j \in 1..Len(list[g]) : list[g][j] # next[q[i]]
            <4> SUFFICES ASSUME NEW j \in 1..Len(list[g]), i # Len(q), list[g][j] = q[i + 1]
                         PROVE  FALSE
                BY <1>5, <2>1, CellAssumption
            <4>1. i + 1 \in 1..Len(q)
                BY <1>1
            <4> QED BY <1>12, <4>1, ListsApart DEF TypeOK
        <3> QED BY <1>10, <2>1, <3>1
    <2>5. HasLast => last'[g] = last[g]
        BY <1>12 DEF TypeOK
    <2>6. ListOK(g)
        BY LinksByList
    <2> QED BY <2>2, <2>3, <2>4, <2>5, <2>6, OtherList
<1>13. TypeOK'
    <2>1. next' \in [Cell -> Elems \cup {NULL}]
        BY <1>1, <1>3, <1>4, <1>8 DEF SwapLinks, Cell
    <2>2. prev' \in [Elems -> Cell \cup {NULL}]
        BY <1>4, <1>8, <1>10
    <2>3. last' \in [Heads -> Cell]
        BY <1>4 DEF TypeOK
    <2>4. list' \in [Heads -> Seq(Elems)]
        BY <1>6, <1>7 DEF TypeOK
    <2>5. ASSUME NEW x \in Heads, NEW g \in Heads, NEW k \in DOMAIN list'[x],
                 NEW j \in DOMAIN list'[g], list'[x][k] = list'[g][j]
          PROVE  x = g /\ k = j
        <3>1. /\ list'[h] = r
              /\ \A y \in Heads : y # h => list'[y] = list[y]
              /\ \A y \in Heads : \A m \in DOMAIN list[y] : list[y][m] # f
            BY <1>7, ListsApart DEF TypeOK
        <3>2. \A m \in DOMAIN r : m \in DOMAIN q /\ (r[m] = f \/ r[m] = q[m]) /\ (r[m] = f <=> m = i)
            BY <1>1, <1>6
        <3>3. CASE x = h /\ g = h
            BY <1>1, <2>5, <3>1, <3>2, <3>3 DEF Distinct
        <3>4. CASE x = h /\ g # h
            BY <2>5, <3>1, <3>2, <3>4 DEF TypeOK
        <3>5. CASE x # h /\ g = h
            BY <2>5, <3>1, <3>2, <3>5 DEF TypeOK
        <3>6. CASE x # h /\ g # h
            BY <2>5, <3>1, <3>6 DEF TypeOK
        <3> QED BY <3>3, <3>4, <3>5, <3>6
    <2> QED BY <2>1, <2>2, <2>3, <2>4, <2>5 DEF TypeOK
<1> QED BY <1>11, <1>12, <1>13, LinksByList

(***************************************************************************)
(* List g, not empty, is hung behind list h.                               *)
(***************************************************************************)
LEMMA ConcatStep ==
    ASSUME TypeOK, Links, NEW h \in Heads, NEW g \in Heads, h # g,
           HasLast, Len(list[g]) # 0,
           list' = [list EXCEPT ![h] = @ \o list[g], ![g] = <<>>], kind' = kind,
           JoinLists(h, g),
           IF HasPrev THEN prev' = [prev EXCEPT ![next[g]] = last[h]] ELSE prev' = prev
    PROVE  TypeOK' /\ Links'
<1> DEFINE q == list[h]
           s == list[g]
           r == q \o s
           c == At(h, q, Len(q))
<1>1. /\ q \in Seq(Elems) /\ s \in Seq(Elems) /\ Len(q) \in Nat /\ Len(s) \in Nat
      /\ Distinct(q) /\ Distinct(s)
      /\ DOMAIN q = 1..Len(q) /\ DOMAIN s = 1..Len(s)
      /\ \A j \in 1..Len(s) : s[j] \in Elems
      /\ 1 \in 1..Len(s) /\ Len(s) \in 1..Len(s) /\ Len(q) \in 0..Len(q) /\ 0 \in 0..Len(s)
      /\ Len(s) \in 0..Len(s)
    BY ListsApart
<1>2. /\ \A j \in 0..Len(q), k \in 0..Len(s) : At(h, q, j) # At(g, s, k)
      /\ \A j \in DOMAIN q, k \in DOMAIN s : q[j] # s[k]
    BY ListsApart DEF TypeOK
<1>3. /\ Chain(next, h, q) /\ Chain(next, g, s)
      /\ HasPrev => Back(prev, h, q) /\ Back(prev, g, s)
      /\ last[h] = c /\ last[g] = At(g, s, Len(s))
    BY LinksByList DEF ListOK
<1>4. next[g] = s[1] /\ last[g] = s[Len(s)]
    BY <1>1, <1>3 DEF Chain, Spells, At
<1>5. Hung(q, s, r)
    BY <1>1, HungConcat
<1>6. /\ list' = [list EXCEPT ![h] = r, ![g] = <<>>]
      /\ list'[h] = r /\ list'[g] = <<>>
      /\ \A f \in Heads : f # h /\ f # g => list'[f] = list[f]
    BY DEF TypeOK
<1> HIDE DEF r
<1>7. /\ next \in [Cell -> Elems \cup {NULL}] /\ prev \in [Elems -> Cell \cup {NULL}]
      /\ last \in [Heads -> Cell]
    BY DEF TypeOK
<1>8. /\ c \in Cell /\ g \in Cell /\ c # g
      /\ s[1] \in Elems /\ s[Len(s)] \in Cell
    <2>1. c \in Cell
        BY <1>1, CellsDiffer
    <2>2. c # At(g, s, 0) /\ At(g, s, 0) = g
        BY <1>1, <1>2 DEF At
    <2> QED BY <1>1, <2>1, <2>2 DEF Cell
<1>9. /\ next' = [next EXCEPT ![c] = next[g], ![g] = NULL]
      /\ last' = [last EXCEPT ![h] = s[Len(s)], ![g] = g]
      /\ HasPrev => prev' = [prev EXCEPT ![s[1]] = c]
    BY <1>3, <1>4 DEF JoinLists
<1>10. /\ \A f, x \in Heads : f # x => \A k \in DOMAIN list[f], j \in DOMAIN list[x] :
                                          list[f][k] # list[x][j]
    BY DEF TypeOK
<1>11. ListOK(h)'
    <2>1. Chain(next', h, r)
        <3> HIDE DEF q, s
        <3> QED BY <1>1, <1>2, <1>3, <1>5, <1>7, <1>9, ChainConcat, Zenon DEF s
    <2>2. HasPrev => Back(prev', h, r)
        <3> SUFFICES ASSUME HasPrev PROVE Back(prev', h, r)
            OBVIOUS
        <3>1. prev' = [prev EXCEPT ![s[1]] = c] /\ Back(prev, h, q) /\ Back(prev, g, s)
            BY <1>3, <1>9
        <3>2. Back([prev EXCEPT ![s[1]] = At(h, q, Len(q))], h, r)
            <4> HIDE DEF q, s
            <4> QED BY <1>1, <1>2, <1>5, <1>7, <3>1, BackConcat DEF s
        <3> QED BY <3>1, <3>2
    <2>3. last'[h] = At(h, r, Len(r))
        <3>1. Len(r) = Len(q) + Len(s) /\ r[Len(q) + Len(s)] = s[Len(s)]
            <4> HIDE DEF q, s
            <4> QED BY <1>1, <1>5 DEF Hung
        <3>2. Len(q) + Len(s) # 0
            <4>1. \A x, y \in Nat : y # 0 => x + y # 0
                OBVIOUS
            <4> QED BY <1>1, <4>1
        <3> QED BY <1>7, <1>9, <3>1, <3>2 DEF At
    <2> QED BY <1>6, <2>1, <2>2, <2>3 DEF ListOK, HasPrev, HasLast
<1>12. ListOK(g)'
    <2>1. /\ list'[g] = <<>> /\ Len(<<>>) = 0 /\ next'[g] = NULL /\ last'[g] = g
        BY <1>6, <1>7, <1>8, <1>9
    <2>2. \A j \in 0..0 : j = 0
        OBVIOUS
    <2>3. 1..0 = {}
        OBVIOUS
    <2> QED BY <2>1, <2>2, <2>3 DEF ListOK, Chain, Spells, Back, At
<1>13. ASSUME NEW f \in Heads, f # h, f # g
       PROVE  ListOK(f)'
    <2>1. /\ \A j \in 0..Len(list[f]) : At(f, list[f], j) \in Cell
          /\ \A j \in 1..Len(list[f]) : list[f][j] \in Elems
          /\ Len(list[f]) \in Nat /\ DOMAIN list[f] = 1..Len(list[f])
        BY ListsApart, CellsDiffer
    <2>2. \A j \in 0..Len(list[f]) : At(f, list[f], j) # c /\ At(f, list[f], j) # g
        <3>1. At(g, s, 0) = g
            BY DEF At
        <3> QED BY <1>1, <1>13, <3>1, ListsApart
    <2>3. \A j \in 0..Len(list[f]) : next'[At(f, list[f], j)] = next[At(f, list[f], j)]
        BY <1>7, <1>8, <1>9, <2>1, <2>2
    <2>4. HasPrev => \A j \in 1..Len(list[f]) : prev'[list[f][j]] = prev[list[f][j]]
        <3>1. \A j \in 1..Len(list[f]) : list[f][j] # s[1]
            BY <1>1, <1>10, <1>13, <2>1
        <3> QED BY <1>7, <1>8, <1>9, <2>1, <3>1
    <2>5. last'[f] = last[f] /\ list'[f] = list[f]
        BY <1>6, <1>7, <1>9, <1>13
    <2>6. ListOK(f)
        BY LinksByList
    <2> QED BY <2>3, <2>4, <2>5, <2>6, OtherList
<1>14. TypeOK'
    <2>1. next' \in [Cell -> Elems \cup {NULL}]
        BY <1>4, <1>7, <1>8, <1>9
    <2>2. prev' \in [Elems -> Cell \cup {NULL}]
        BY <1>7, <1>8, <1>9
    <2>3. last' \in [Heads -> Cell]
        BY <1>7, <1>8, <1>9
    <2>4. list' \in [Heads -> Seq(Elems)]
        <3>1. r \in Seq(Elems) /\ <<>> \in Seq(Elems) /\ list \in [Heads -> Seq(Elems)]
            BY <1>5 DEF TypeOK, Hung
        <3> QED BY <1>6, <3>1
    <2>5. ASSUME NEW x \in Heads, NEW y \in Heads, NEW k \in DOMAIN list'[x],
                 NEW j \in DOMAIN list'[y], list'[x][k] = list'[y][j]
          PROVE  x = y /\ k = j
        <3>1. DOMAIN list'[g] = {}
            BY <1>6
        <3>2. x # g /\ y # g
            BY <2>5, <3>1
        <3>3. ASSUME NEW k1 \in DOMAIN r, NEW k2 \in DOMAIN r, r[k1] = r[k2]
              PROVE  k1 = k2
            <4> HIDE DEF q, s
            <4>1. \/ k1 \in DOMAIN q /\ r[k1] = q[k1]
                  \/ /\ (k1 - Len(q)) \in DOMAIN s
                     /\ r[k1] = s[k1 - Len(q)] /\ Len(q) + (k1 - Len(q)) = k1
                BY <1>1, <1>5, HungPlaces
            <4>2. \/ k2 \in DOMAIN q /\ r[k2] = q[k2]
                  \/ /\ (k2 - Len(q)) \in DOMAIN s
                     /\ r[k2] = s[k2 - Len(q)] /\ Len(q) + (k2 - Len(q)) = k2
                BY <1>1, <1>5, HungPlaces
            <4> QED BY <1>1, <1>2, <3>3, <4>1, <4>2, Zenon DEF Distinct
        <3>4. ASSUME NEW f \in Heads, f # h, f # g, NEW k1 \in DOMAIN r,
                     NEW k2 \in DOMAIN list[f], r[k1] = list[f][k2]
              PROVE  FALSE
            <4>1. \/ k1 \in DOMAIN q /\ r[k1] = q[k1]
                  \/ (k1 - Len(q)) \in DOMAIN s /\ r[k1] = s[k1 - Len(q)]
                BY <1>1, <1>5, HungPlaces
            <4> QED BY <1>10, <3>4, <4>1, Zenon
        <3>5. CASE x = h /\ y = h
            BY <1>6, <2>5, <3>3, <3>5
        <3>6. CASE x = h /\ y # h
            <4>1. k \in DOMAIN r /\ j \in DOMAIN list[y] /\ r[k] = list[y][j]
                BY <1>6, <2>5, <3>2, <3>6
            <4> QED BY <3>2, <3>4, <3>6, <4>1
        <3>7. CASE x # h /\ y = h
            <4>1. j \in DOMAIN r /\ k \in DOMAIN list[x] /\ r[j] = list[x][k]
                BY <1>6, <2>5, <3>2, <3>7
            <4> QED BY <3>2, <3>4, <3>7, <4>1
        <3>8. CASE x # h /\ y # h
            BY <1>6, <2>5, <3>2, <3>8 DEF TypeOK
        <3> QED BY <3>5, <3>6, <3>7, <3>8
    <2> QED BY <2>1, <2>2, <2>3, <2>4, <2>5 DEF TypeOK
<1> QED BY <1>11, <1>12, <1>13, <1>14, LinksByList

-----------------------------------------------------------------------------
(***************************************************************************)
(* What the operations on the history sequences do, in the terms of the    *)
(* lemmas above.                                                           *)
(***************************************************************************)
LEMMA PutInserts ==
    ASSUME NEW q \in Seq(Elems), NEW i \in 0..Len(q), NEW e \in Elems
    PROVE  Inserted(q, i, e, InsertAt(q, i + 1, e))
<1>1. PICK k \in 1..(Len(q) + 1) : k = i + 1 /\ k - 1 = i
    OBVIOUS
<1> DEFINE r == InsertAt(q, k, e)
<1>2. r \in Seq(Elems) /\ Len(r) = Len(q) + 1
    BY InsertAtElements
<1>3. \A j \in 1..(k - 1) : r[j] = q[j]
    BY InsertAtElements
<1>4. r[k] = e
    BY InsertAtElements
<1>5. \A j \in k..Len(q) : r[j + 1] = q[j]
    BY InsertAtElements
<1> HIDE DEF r
<1> QED BY <1>1, <1>2, <1>3, <1>4, <1>5 DEF Inserted, InsertedIn, r

(***************************************************************************)
(* INSERT_TAIL inserts behind the last element.                            *)
(***************************************************************************)
LEMMA AppendInserts ==
    ASSUME NEW q \in Seq(Elems), NEW e \in Elems
    PROVE  Inserted(q, Len(q), e, Append(q, e))
<1> DEFINE r == Append(q, e)
<1>1. Len(q) \in Nat
    OBVIOUS
<1>2. /\ r \in Seq(Elems) /\ Len(r) = Len(q) + 1 /\ r[Len(q) + 1] = e
      /\ \A j \in 1..Len(q) : r[j] = q[j]
    BY AppendProperties
<1>3. \A j \in (Len(q) + 1)..Len(q) : FALSE
    BY <1>1
<1> HIDE DEF r
<1> QED BY <1>2, <1>3 DEF Inserted, InsertedIn, r

(***************************************************************************)
(* What RemoveAt takes off a list.                                         *)
(***************************************************************************)
LEMMA TakeRemoves ==
    ASSUME NEW q \in Seq(Elems), NEW i \in DOMAIN q
    PROVE  Removed(q, i, RemoveAt(q, i))
BY RemoveAtElements DEF Removed, RemovedIn

(***************************************************************************)
(* The search of SLIST_REMOVE and STAILQ_REMOVE stops at the element in    *)
(* front of the one to remove.                                             *)
(***************************************************************************)
LEMMA SearchStops ==
    ASSUME TypeOK, Links, NEW h \in Heads, NEW i \in DOMAIN list[h]
    PROVE  /\ next[h] = list[h][i] => i = 1
           /\ next[h] # list[h][i] => i # 1 /\ Curelm(h, list[h][i]) = list[h][i - 1]
<1> DEFINE q == list[h]
           e == q[i]
<1>1. /\ Len(q) \in Nat /\ DOMAIN q = 1..Len(q) /\ 1 \in 1..Len(q)
      /\ \A j \in 1..Len(q) : q[j] \in Elems
      /\ \A j, k \in 1..Len(q) : q[j] = q[k] => j = k
    BY ListsApart DEF Distinct
<1>2. \A j \in 0..Len(q) : next[At(h, q, j)] = IF j = Len(q) THEN NULL ELSE q[j + 1]
    BY LinksByList DEF ListOK, Chain, Spells
<1>3. next[h] = q[1]
    BY <1>1, <1>2 DEF At
<1>4. \A j \in 1..Len(q) : next[q[j]] = e <=> j = i - 1
    <2> SUFFICES ASSUME NEW j \in 1..Len(q) PROVE next[q[j]] = e <=> j = i - 1
        OBVIOUS
    <2>1. next[q[j]] = IF j = Len(q) THEN NULL ELSE q[j + 1]
        BY <1>1, <1>2 DEF At
    <2>2. j # Len(q) => j + 1 \in 1..Len(q)
        BY <1>1
    <2>3. CASE j = Len(q)
        BY <1>1, <2>1, <2>3, CellAssumption
    <2>4. CASE j # Len(q)
        BY <1>1, <2>1, <2>2, <2>4
    <2> QED BY <2>3, <2>4
<1>5. ASSUME i # 1 PROVE Curelm(h, e) = q[i - 1]
    <2> DEFINE P(k) == /\ next[q[k]] = e
                       /\ \A j \in 1..(k - 1) : next[q[j]] # e
    <2>1. i - 1 \in DOMAIN q /\ \A j \in 1..((i - 1) - 1) : j \in 1..Len(q) /\ j # i - 1
        BY <1>1, <1>5
    <2>2. P(i - 1)
        BY <1>1, <1>4, <2>1
    <2>3. \A k \in DOMAIN q : P(k) => k = i - 1
        BY <1>1, <1>4
    <2> HIDE DEF P
    <2>4. (CHOOSE k \in DOMAIN q : P(k)) = i - 1
        BY <2>1, <2>2, <2>3
    <2> QED BY <2>4 DEF Curelm, P
<1> QED BY <1>1, <1>3, <1>5

-----------------------------------------------------------------------------
(***************************************************************************)
(* The inductive step: every macro of every family, and the loop.          *)
(***************************************************************************)
LEMMA LinksStep ==
    ASSUME TypeOK, Links, [Next]_vars
    PROVE  TypeOK' /\ Links'
<1>0. ASSUME UNCHANGED <<kind, links, list>>
      PROVE  TypeOK' /\ Links'
    BY <1>0 DEF TypeOK, Links, CellAt, HasPrev, HasLast, links
<1>1. ASSUME NEW h \in Heads, Initialise(h)
      PROVE  TypeOK' /\ Links'
    <2>1. /\ list' = [list EXCEPT ![h] = <<>>] /\ kind' = kind
          /\ next' = [next EXCEPT ![h] = NULL]
          /\ prev' = prev
          /\ last' = last \/ last' = [last EXCEPT ![h] = h]
          /\ HasLast => last' = [last EXCEPT ![h] = h]
        BY <1>1 DEF Initialise, SLIST_INIT, LIST_INIT, SIMPLEQ_INIT, STAILQ_INIT, TAILQ_INIT,
                    HasLast
    <2>2. /\ h \in Cell /\ <<>> \in Seq(Elems) /\ Len(<<>>) = 0 /\ DOMAIN <<>> = {}
          /\ list'[h] = <<>> /\ \A g \in Heads : g # h => list'[g] = list[g]
        BY <2>1 DEF Cell, TypeOK
    <2>3. TypeOK'
        <3>1. /\ next' \in [Cell -> Elems \cup {NULL}] /\ last' \in [Heads -> Cell]
              /\ list' \in [Heads -> Seq(Elems)] /\ prev' \in [Elems -> Cell \cup {NULL}]
              /\ kind' \in Kind
            BY <2>1, <2>2, ZenonT(40) DEF TypeOK
        <3>2. ASSUME NEW f \in Heads, NEW g \in Heads, NEW k \in DOMAIN list'[f],
                     NEW j \in DOMAIN list'[g], list'[f][k] = list'[g][j]
              PROVE  f = g /\ k = j
            <4>1. f # h /\ g # h
                BY <2>2
            <4> QED BY <2>2, <3>2, <4>1 DEF TypeOK
        <3> QED BY <3>1, <3>2 DEF TypeOK
    <2>4. ListOK(h)'
        <3>1. next'[h] = NULL /\ (HasLast => last'[h] = h)
            BY <2>1, <2>2 DEF TypeOK
        <3>2. (\A j \in 0..0 : j = 0) /\ 1..0 = {}
            OBVIOUS
        <3> QED BY <2>1, <2>2, <3>1, <3>2 DEF ListOK, Chain, Spells, Back, At, HasLast
    <2>5. ASSUME NEW g \in Heads, g # h PROVE ListOK(g)'
        <3>1. \A j \in 0..Len(list[g]) : At(g, list[g], j) # h /\ At(g, list[g], j) \in Cell
            <4>1. 0 \in 0..Len(list[h]) /\ At(h, list[h], 0) = h
                BY ListsApart DEF At
            <4> QED BY <2>5, <4>1, ListsApart, CellsDiffer
        <3>2. \A j \in 0..Len(list[g]) : next'[At(g, list[g], j)] = next[At(g, list[g], j)]
            BY <2>1, <3>1 DEF TypeOK
        <3>3. last'[g] = last[g] /\ list'[g] = list[g]
            BY <2>1, <2>5 DEF TypeOK
        <3>4. ListOK(g)
            BY LinksByList
        <3> QED BY <2>1, <3>2, <3>3, <3>4, OtherList
    <2> QED BY <2>3, <2>4, <2>5, LinksByList
<1>2. ASSUME NEW h \in Heads, RemoveHead(h)
      PROVE  TypeOK' /\ Links'
    <2> DEFINE q == list[h]
    <2>1. q \in Seq(Elems) /\ 1 \in DOMAIN q /\ 1 \in 1..Len(q)
        BY <1>2, ListsApart, EmptySeq DEF RemoveHead
    <2>2. next[h] = q[1] /\ CellAt(h, 1 - 1) = h
        <3>1. 0 \in 0..Len(q) /\ 0 # Len(q)
            BY <2>1, ListsApart
        <3> QED BY <3>1, LinksByList DEF ListOK, Chain, Spells, At, CellAt
    <2>3. /\ list' = [list EXCEPT ![h] = RemoveAt(q, 1)] /\ kind' = kind
          /\ CutNext(h, next[h]) /\ ~HasPrev /\ prev' = prev
          /\ IF HasLast THEN CutLast(h, h, next[h]) ELSE last' = last
        BY <1>2 DEF RemoveHead, Take, SLIST_REMOVE_HEAD, SIMPLEQ_REMOVE_HEAD,
                    STAILQ_REMOVE_HEAD, HasPrev, HasLast
    <2>4. Removed(q, 1, RemoveAt(q, 1))
        BY <2>1, TakeRemoves
    <2> QED BY <2>1, <2>2, <2>3, <2>4, RemoveStep
<1>3. ASSUME NEW h \in Heads, NEW e \in Elems, InsertHead(h, e)
      PROVE  TypeOK' /\ Links'
    <2>1. list[h] \in Seq(Elems) /\ 0 \in 0..Len(list[h]) /\ 0 + 1 = 1
        BY ListsApart
    <2>2. Inserted(list[h], 0, e, InsertAt(list[h], 1, e))
        BY <2>1, PutInserts
    <2>3. /\ ~OnList(e) /\ kind' = kind
          /\ list' = [list EXCEPT ![h] = InsertAt(list[h], 1, e)]
          /\ LinkNext(h, e)
          /\ IF HasPrev THEN LinkPrev(h, e) ELSE prev' = prev
          /\ IF HasLast THEN LinkLast(h, h, e) ELSE last' = last
        BY <1>3 DEF InsertHead, Put, Unlisted, SLIST_INSERT_HEAD, LIST_INSERT_HEAD,
                    SIMPLEQ_INSERT_HEAD, STAILQ_INSERT_HEAD, TAILQ_INSERT_HEAD, HasPrev, HasLast
    <2>4. CellAt(h, 0) = h
        BY DEF CellAt
    <2> QED BY <2>1, <2>2, <2>3, <2>4, InsertStep
<1>4. ASSUME NEW h \in Heads, NEW e \in Elems, InsertTail(h, e)
      PROVE  TypeOK' /\ Links'
    <2> DEFINE q == list[h]
               c == CellAt(h, Len(q))
    <2>1. q \in Seq(Elems) /\ Len(q) \in 0..Len(q)
        BY ListsApart
    <2>2. Inserted(q, Len(q), e, Append(q, e))
        BY <2>1, AppendInserts
    <2>3. /\ ~OnList(e) /\ kind' = kind /\ HasLast
          /\ list' = [list EXCEPT ![h] = Append(q, e)]
          /\ next' = [next EXCEPT ![e] = NULL, ![last[h]] = e]
          /\ IF HasPrev THEN prev' = [prev EXCEPT ![e] = last[h]] ELSE prev' = prev
          /\ last' = [last EXCEPT ![h] = e]
        BY <1>4 DEF InsertTail, Unlisted, SIMPLEQ_INSERT_TAIL, STAILQ_INSERT_TAIL,
                    TAILQ_INSERT_TAIL, HasPrev, HasLast
    <2>4. c = last[h] /\ next[c] = NULL
        BY <2>1, <2>3, LinksByList DEF ListOK, Chain, Spells, At, CellAt
    <2>5. LinkNext(c, e) /\ LinkLast(h, c, e)
        BY <2>3, <2>4 DEF LinkNext, LinkLast
    <2>6. IF HasPrev THEN LinkPrev(c, e) ELSE prev' = prev
        BY <2>3, <2>4, CellAssumption DEF LinkPrev, TypeOK
    <2> QED BY <2>1, <2>2, <2>3, <2>5, <2>6, InsertStep
<1>5. ASSUME NEW h \in Heads, NEW i \in DOMAIN list[h], RemoveAfter(h, i)
      PROVE  TypeOK' /\ Links'
    <2> DEFINE q == list[h]
    <2>1. /\ q \in Seq(Elems) /\ i + 1 \in DOMAIN q /\ i + 1 \in 1..Len(q) /\ i \in 0..Len(q)
          /\ (i + 1) - 1 = i /\ i # 0 /\ i # Len(q)
        BY <1>5, ListsApart DEF RemoveAfter
    <2>2. next[q[i]] = q[i + 1] /\ CellAt(h, (i + 1) - 1) = q[i]
        BY <2>1, LinksByList DEF ListOK, Chain, Spells, At, CellAt
    <2>3. /\ list' = [list EXCEPT ![h] = RemoveAt(q, i + 1)] /\ kind' = kind
          /\ CutNext(q[i], next[q[i]]) /\ ~HasPrev /\ prev' = prev
          /\ IF HasLast THEN CutLast(h, q[i], next[q[i]]) ELSE last' = last
        BY <1>5 DEF RemoveAfter, Take, SLIST_REMOVE_AFTER, SIMPLEQ_REMOVE_AFTER,
                    STAILQ_REMOVE_AFTER, HasPrev, HasLast
    <2>4. Removed(q, i + 1, RemoveAt(q, i + 1))
        BY <2>1, TakeRemoves
    <2> QED BY <2>1, <2>2, <2>3, <2>4, RemoveStep
<1>6. ASSUME NEW h \in Heads, NEW i \in DOMAIN list[h], RemoveElm(h, i)
      PROVE  TypeOK' /\ Links'
    <2> DEFINE q == list[h]
               c == CellAt(h, i - 1)
    <2>1. q \in Seq(Elems) /\ i \in 1..Len(q) /\ Removed(q, i, RemoveAt(q, i))
        BY ListsApart, TakeRemoves
    <2>2. list' = [list EXCEPT ![h] = RemoveAt(q, i)] /\ kind' = kind
        BY <1>6 DEF RemoveElm, Take
    <2>3. CASE HasPrev
        <3>1. c = prev[q[i]]
            BY <2>1, <2>3, LinksByList DEF ListOK, Back, At, CellAt
        <3>2. /\ CutNext(c, q[i]) /\ CutPrev(c, q[i])
              /\ IF HasLast THEN CutLast(h, c, q[i]) ELSE last' = last
            BY <1>6, <2>3, <3>1 DEF RemoveElm, LIST_REMOVE, TAILQ_REMOVE, HasPrev, HasLast
        <3> QED BY <2>1, <2>2, <2>3, <3>2, RemoveStep
    <2>4. CASE ~HasPrev
        <3> DEFINE p == IF next[h] = q[i] THEN h ELSE Curelm(h, q[i])
        <3>1. p = c /\ next[c] = q[i]
            <4>1. p = c
                <5>1. CASE next[h] = q[i]
                    <6>1. i = 1 /\ 1 - 1 = 0
                        BY <5>1, SearchStops
                    <6> QED BY <5>1, <6>1 DEF CellAt
                <5>2. CASE next[h] # q[i]
                    <6>1. i # 1 /\ Curelm(h, q[i]) = q[i - 1]
                        BY <5>2, SearchStops
                    <6>2. i - 1 # 0
                        BY <2>1, <6>1, ListsApart
                    <6> QED BY <5>2, <6>1, <6>2 DEF CellAt
                <5> QED BY <5>1, <5>2
            <4>2. i - 1 \in 0..Len(q) /\ i - 1 # Len(q) /\ (i - 1) + 1 = i
                BY <2>1, ListsApart
            <4>3. next[c] = q[i]
                BY <4>2, LinksByList DEF ListOK, Chain, Spells, At, CellAt
            <4> QED BY <4>1, <4>3
        <3>2. /\ CutNext(p, next[p]) /\ prev' = prev
              /\ IF HasLast THEN CutLast(h, p, next[p]) ELSE last' = last
            <4>1. CASE kind = "SLIST"
                BY <1>6, <4>1 DEF RemoveElm, SLIST_REMOVE, SLIST_REMOVE_HEAD,
                                  SLIST_REMOVE_AFTER, HasLast
            <4>2. CASE kind = "STAILQ"
                BY <1>6, <4>2 DEF RemoveElm, STAILQ_REMOVE, STAILQ_REMOVE_HEAD,
                                  STAILQ_REMOVE_AFTER, SIMPLEQ_REMOVE_HEAD,
                                  SIMPLEQ_REMOVE_AFTER, HasLast
            <4> QED BY <1>6, <2>4, <4>1, <4>2 DEF RemoveElm, HasPrev
        <3> HIDE DEF p
        <3>3. /\ CutNext(c, q[i])
              /\ IF HasLast THEN CutLast(h, c, q[i]) ELSE last' = last
            BY <3>1, <3>2
        <3> QED BY <2>1, <2>2, <2>4, <3>2, <3>3, RemoveStep
    <2> QED BY <2>3, <2>4
<1>7. ASSUME NEW h \in Heads, NEW e \in Elems, NEW i \in DOMAIN list[h], InsertAfter(h, i, e)
      PROVE  TypeOK' /\ Links'
    <2> DEFINE q == list[h]
               c == CellAt(h, i)
    <2>1. q \in Seq(Elems) /\ i \in 0..Len(q) /\ c = q[i]
        BY ListsApart DEF CellAt
    <2>2. Inserted(q, i, e, InsertAt(q, i + 1, e))
        BY <2>1, PutInserts
    <2>3. /\ ~OnList(e) /\ kind' = kind
          /\ list' = [list EXCEPT ![h] = InsertAt(q, i + 1, e)]
          /\ LinkNext(q[i], e)
          /\ IF HasPrev THEN LinkPrev(q[i], e) ELSE prev' = prev
          /\ IF HasLast THEN LinkLast(h, q[i], e) ELSE last' = last
        BY <1>7 DEF InsertAfter, Put, Unlisted, SLIST_INSERT_AFTER, LIST_INSERT_AFTER,
                    SIMPLEQ_INSERT_AFTER, STAILQ_INSERT_AFTER, TAILQ_INSERT_AFTER, HasPrev, HasLast
    <2> QED BY <2>1, <2>2, <2>3, InsertStep
<1>8. ASSUME NEW h \in Heads, NEW e \in Elems, NEW i \in DOMAIN list[h], InsertBefore(h, i, e)
      PROVE  TypeOK' /\ Links'
    <2> DEFINE q == list[h]
               c == CellAt(h, i - 1)
               x == q[i]
    <2>1. /\ q \in Seq(Elems) /\ i - 1 \in 0..Len(q) /\ (i - 1) + 1 = i /\ i \in 1..Len(q)
          /\ x \in Elems /\ i - 1 # Len(q)
        BY ListsApart
    <2>2. Inserted(q, i - 1, e, InsertAt(q, i, e))
        BY <2>1, PutInserts
    <2>3. /\ ~OnList(e) /\ kind' = kind /\ HasPrev
          /\ list' = [list EXCEPT ![h] = InsertAt(q, i, e)]
          /\ LinkBefore(x, e) /\ last' = last
        BY <1>8 DEF InsertBefore, Put, Unlisted, LIST_INSERT_BEFORE, TAILQ_INSERT_BEFORE, HasPrev
    <2>4. c = prev[x] /\ next[c] = x /\ x # e /\ x # NULL
        <3>1. c = prev[x] /\ next[c] = x
            BY <2>1, <2>3, LinksByList DEF ListOK, Chain, Spells, Back, At, CellAt
        <3>2. x # e
            BY <2>1, <2>3, ListsApart
        <3> QED BY <2>1, <3>1, <3>2, CellAssumption
    <2>5. LinkNext(c, e)
        BY <2>3, <2>4 DEF LinkBefore, LinkNext
    <2>6. LinkPrev(c, e)
        BY <2>1, <2>3, <2>4 DEF LinkBefore, LinkPrev, TypeOK
    <2>7. LinkLast(h, c, e)
        BY <2>3, <2>4 DEF LinkLast
    <2> QED BY <2>1, <2>2, <2>3, <2>5, <2>6, <2>7, InsertStep
<1>9. ASSUME NEW h \in Heads, NEW e \in Elems, NEW i \in DOMAIN list[h], Replace(h, i, e)
      PROVE  TypeOK' /\ Links'
    <2>1. i \in 1..Len(list[h])
        BY ListsApart
    <2>2. /\ ~OnList(e) /\ kind' = kind /\ HasPrev
          /\ list' = [list EXCEPT ![h][i] = e] /\ SwapLinks(list[h][i], e)
          /\ IF HasLast THEN last' = (IF next[list[h][i]] = NULL THEN [last EXCEPT ![h] = e]
                                      ELSE last)
                        ELSE last' = last
        BY <1>9 DEF Replace, Unlisted, LIST_REPLACE, TAILQ_REPLACE, HasPrev, HasLast
    <2> QED BY <2>1, <2>2, ReplaceStep
<1>10. ASSUME NEW h \in Heads, NEW g \in Heads, Concat(h, g)
       PROVE  TypeOK' /\ Links'
    <2>1. /\ h # g /\ kind' = kind /\ HasLast
          /\ list' = [list EXCEPT ![h] = @ \o list[g], ![g] = <<>>]
          /\ next[g] = NULL => UNCHANGED links
          /\ next[g] # NULL =>
                /\ JoinLists(h, g)
                /\ IF HasPrev THEN prev' = [prev EXCEPT ![next[g]] = last[h]] ELSE prev' = prev
        BY <1>10 DEF Concat, SIMPLEQ_CONCAT, STAILQ_CONCAT, TAILQ_CONCAT, HasPrev, HasLast
    <2>2. /\ list[g] \in Seq(Elems) /\ list[h] \in Seq(Elems) /\ Len(list[g]) \in Nat
          /\ next[g] = IF 0 = Len(list[g]) THEN NULL ELSE list[g][1]
        BY ListsApart, LinksByList DEF ListOK, Chain, Spells, At
    <2>3. CASE Len(list[g]) = 0
        <3>1. list[g] = <<>> /\ list[h] \o <<>> = list[h]
            BY <2>2, <2>3, EmptySeq, ConcatEmptySeq
        <3>2. list' = list
            BY <2>1, <3>1 DEF TypeOK
        <3>3. UNCHANGED links
            BY <2>1, <2>2, <2>3
        <3> QED BY <1>0, <2>1, <3>2, <3>3
    <2>4. CASE Len(list[g]) # 0
        <3>1. list[g][1] \in Elems
            BY <2>2, <2>4
        <3>2. next[g] # NULL
            BY <2>2, <2>4, <3>1, CellAssumption
        <3> QED BY <2>1, <2>4, <3>2, ConcatStep
    <2> QED BY <2>3, <2>4
<1>11. ASSUME NEW h \in Heads, FOREACH_SAFE(h)
       PROVE  TypeOK' /\ Links'
    BY <1>0, <1>11 DEF FOREACH_SAFE
<1>12. CASE NextPass
    BY <1>0, <1>12 DEF NextPass
<1>13. CASE UNCHANGED vars
    BY <1>0, <1>13 DEF vars, links
<1> QED BY <1>1, <1>2, <1>3, <1>4, <1>5, <1>6, <1>7, <1>8, <1>9, <1>10, <1>11, <1>12, <1>13
        DEF Next

(***************************************************************************)
(* The lists begin empty, their last pointers at the heads.                *)
(***************************************************************************)
LEMMA LinksInit ==
    ASSUME Init
    PROVE  TypeOK /\ Links
<1>1. TypeOK
    BY DEF Init, TypeOK, Cell
<1>2. \A h \in Heads : list[h] = <<>> /\ Len(list[h]) = 0
    BY DEF Init
<1>3. (\A j \in 0..0 : j = 0) /\ 1..0 = {}
    OBVIOUS
<1>4. Links
    BY <1>2, <1>3 DEF Init, Links, CellAt, Cell
<1> QED BY <1>1, <1>4

(***************************************************************************)
(* Whatever macros a caller uses, an element is on one list at most, once. *)
(***************************************************************************)
THEOREM TypeCorrect == Spec => []TypeOK
BY LinksInit, LinksStep, PTL DEF Spec

(***************************************************************************)
(* Whatever macros a caller uses, the pointers spell out the lists.        *)
(***************************************************************************)
THEOREM LinksAlways == Spec => []Links
BY LinksInit, LinksStep, PTL DEF Spec

-----------------------------------------------------------------------------
(***************************************************************************)
(* FOREACH_SAFE.  While a loop runs, its list ends with the elements it    *)
(* has still to visit: the body takes off nothing but var and puts nothing *)
(* on it.                                                                  *)
(***************************************************************************)
Loop == [h : Heads, var : Elems, tvar : Elems \cup {NULL}, start : Seq(Elems), n : Nat]

Ends(q, s, k) ==            \* the last Len(s) - k elements of q are those of s
    /\ Len(q) >= Len(s) - k
    /\ \A j \in (k + 1)..Len(s) : q[Len(q) - Len(s) + j] = s[j]

LoopInv ==
    scan # NULL =>
        /\ scan \in Loop /\ Distinct(scan.start) /\ scan.n + 1 <= Len(scan.start)
        /\ scan.var = scan.start[scan.n + 1]
        /\ scan.tvar = IF scan.n + 1 = Len(scan.start) THEN NULL ELSE scan.start[scan.n + 2]
        /\ Ends(list[scan.h], scan.start, scan.n + 1)

(***************************************************************************)
(* Taking off an element that is not one of those still to come.           *)
(***************************************************************************)
LEMMA EndsRemove ==
    ASSUME NEW q \in Seq(Elems), NEW s \in Seq(Elems), NEW k \in 0..Len(s), Ends(q, s, k),
           NEW i \in DOMAIN q, \A j \in (k + 1)..Len(s) : s[j] # q[i],
           NEW r, Removed(q, i, r)
    PROVE  Ends(r, s, k)
<1> DEFINE n == Len(q)
           m == Len(s)
<1>1. n \in Nat /\ m \in Nat /\ k \in 0..m /\ i \in 1..n /\ Len(r) = n - 1
    BY DEF Removed, RemovedIn
<1>2. /\ n >= m - k
      /\ \A j \in (k + 1)..m : q[n - m + j] = s[j] /\ s[j] # q[i]
      /\ \A j \in 1..(n - 1) : r[j] = IF j < i THEN q[j] ELSE q[j + 1]
    BY DEF Ends, Removed, RemovedIn
<1> SUFFICES /\ n - 1 >= m - k
             /\ \A j \in (k + 1)..m : r[(n - 1) - m + j] = s[j]
    BY <1>1 DEF Ends
<1> HIDE DEF n, m
<1>3. i <= n - m + k
    <2> SUFFICES ASSUME i > n - m + k PROVE FALSE
        BY <1>1
    <2>1. (i - n + m) \in (k + 1)..m /\ n - m + (i - n + m) = i
        BY <1>1
    <2> QED BY <1>2, <2>1
<1>4. ASSUME NEW j \in (k + 1)..m PROVE r[(n - 1) - m + j] = s[j]
    <2>1. /\ ((n - 1) - m + j) \in 1..(n - 1) /\ ~((n - 1) - m + j < i)
          /\ ((n - 1) - m + j) + 1 = n - m + j
        BY <1>1, <1>3
    <2> QED BY <1>2, <2>1
<1>5. n - 1 >= m - k
    BY <1>1, <1>3
<1> QED BY <1>4, <1>5

(***************************************************************************)
(* No step of the loop, of its body or of other code takes from the list   *)
(* what the loop has still to visit.                                       *)
(***************************************************************************)
LEMMA LoopStep ==
    ASSUME TypeOK, Links, LoopInv, [Next]_vars
    PROVE  LoopInv'
<1>1. ASSUME UNCHANGED scan, scan # NULL => list'[scan.h] = list[scan.h]
      PROVE  LoopInv'
    BY <1>1 DEF LoopInv
<1>2. ASSUME NEW h \in Heads, h \in Target, UNCHANGED scan, NEW r,
             list' = [list EXCEPT ![h] = r]
      PROVE  LoopInv'
    <2>1. scan # NULL => h # scan.h /\ scan.h \in Heads
        BY <1>2 DEF Target, LoopInv, Loop
    <2> QED BY <1>1, <1>2, <2>1 DEF TypeOK
<1>3. ASSUME NEW h \in Heads, NEW i \in DOMAIN list[h], RemoveElm(h, i)
      PROVE  LoopInv'
    <2> SUFFICES ASSUME scan # NULL, h = scan.h PROVE LoopInv'
        BY <1>1, <1>3 DEF RemoveElm, Take, TypeOK, LoopInv, Loop
    <2> DEFINE s == scan.start
               k == scan.n + 1
    <2>1. /\ scan \in Loop /\ Distinct(s) /\ k <= Len(s) /\ scan.var = s[k]
          /\ Ends(list[h], s, k)
        BY DEF LoopInv
    <2>2. /\ s \in Seq(Elems) /\ scan.n \in Nat /\ Len(s) \in Nat /\ k \in 0..Len(s)
          /\ k \in DOMAIN s
        BY <2>1 DEF Loop
    <2>3. /\ list[h][i] = s[k] /\ list' = [list EXCEPT ![h] = RemoveAt(list[h], i)]
          /\ UNCHANGED scan
        BY <1>3, <2>1 DEF RemoveElm, Take, Movable
    <2>4. list[h] \in Seq(Elems) /\ Removed(list[h], i, RemoveAt(list[h], i))
        BY TakeRemoves DEF TypeOK
    <2>5. \A j \in (k + 1)..Len(s) : s[j] # list[h][i]
        <3>1. \A j \in (k + 1)..Len(s) : j \in DOMAIN s /\ j # k
            BY <2>2
        <3> QED BY <2>1, <2>2, <2>3, <3>1 DEF Distinct
    <2> HIDE DEF s, k
    <2>6. Ends(RemoveAt(list[h], i), s, k)
        BY <2>1, <2>2, <2>4, <2>5, EndsRemove
    <2>7. list'[h] = RemoveAt(list[h], i)
        BY <2>3 DEF TypeOK
    <2> QED BY <2>3, <2>6, <2>7 DEF LoopInv, s, k
<1>4. ASSUME NEW h \in Heads, FOREACH_SAFE(h)
      PROVE  LoopInv'
    <2> DEFINE q == list[h]
    <2>1. /\ q \in Seq(Elems) /\ Distinct(q) /\ Len(q) \in Nat
          /\ \A j \in 1..Len(q) : q[j] \in Elems
        BY ListsApart
    <2>2. \A j \in 0..Len(q) : next[At(h, q, j)] = IF j = Len(q) THEN NULL ELSE q[j + 1]
        BY LinksByList DEF ListOK, Chain, Spells
    <2>3. Len(q) # 0 /\ next[h] = q[1] /\ 1 \in 1..Len(q)
        <3>1. 0 \in 0..Len(q) /\ At(h, q, 0) = h /\ 0 + 1 = 1
            BY <2>1 DEF At
        <3>2. next[h] = IF 0 = Len(q) THEN NULL ELSE q[1]
            BY <2>2, <3>1
        <3>3. next[h] # NULL
            BY <1>4 DEF FOREACH_SAFE
        <3> QED BY <2>1, <3>2, <3>3
    <2>4. next[q[1]] = IF 1 = Len(q) THEN NULL ELSE q[2]
        <3>1. At(h, q, 1) = q[1] /\ 1 \in 0..Len(q) /\ 1 + 1 = 2
            BY <2>1, <2>3 DEF At
        <3> QED BY <2>2, <3>1
    <2>5. scan' = [h |-> h, var |-> q[1], tvar |-> next[q[1]], start |-> q, n |-> 0]
          /\ UNCHANGED list
        BY <1>4, <2>3 DEF FOREACH_SAFE
    <2>6. scan' \in Loop
        <3>1. next[q[1]] \in Elems \cup {NULL}
            <4>1. \A m \in Nat : m # 0 /\ 1 # m => 2 \in 1..m
                OBVIOUS
            <4> HIDE DEF q
            <4>2. 1 # Len(q) => q[2] \in Elems
                BY <2>1, <2>3, <4>1
            <4> QED BY <2>4, <4>2
        <3> QED BY <2>1, <2>3, <2>5, <3>1 DEF Loop
    <2>7. Ends(q, q, 1)
        BY <2>1, <2>3 DEF Ends
    <2>8. 0 + 1 = 1 /\ 0 + 2 = 2 /\ 1 <= Len(q)
        BY <2>1, <2>3
    <2> QED BY <2>1, <2>4, <2>5, <2>6, <2>7, <2>8 DEF LoopInv
<1>5. ASSUME NextPass PROVE LoopInv'
    <2> SUFFICES ASSUME scan.tvar # NULL, scan # NULL PROVE LoopInv'
        BY <1>5 DEF NextPass, LoopInv
    <2> DEFINE s == scan.start
               k == scan.n + 1
               h == scan.h
               q == list[h]
               p == Len(q) - Len(s) + (k + 1)
    <2>1. /\ scan \in Loop /\ Distinct(s) /\ k <= Len(s)
          /\ scan.tvar = IF k = Len(s) THEN NULL ELSE s[scan.n + 2]
          /\ Ends(q, s, k)
        BY DEF LoopInv
    <2>2. /\ s \in Seq(Elems) /\ scan.n \in Nat /\ Len(s) \in Nat /\ k \in Nat
          /\ k # Len(s) /\ k + 1 \in 1..Len(s) /\ h \in Heads /\ scan.n + 2 = k + 1
        BY <2>1 DEF Loop
    <2>3. /\ q \in Seq(Elems) /\ Len(q) \in Nat
          /\ \A j \in 1..Len(q) : q[j] \in Elems
        BY <2>2, ListsApart
    <2>4. \A j \in 0..Len(q) : next[At(h, q, j)] = IF j = Len(q) THEN NULL ELSE q[j + 1]
        BY <2>2, LinksByList DEF ListOK, Chain, Spells
    <2>5. /\ scan' = [scan EXCEPT !.var = scan.tvar, !.tvar = next[scan.tvar], !.n = @ + 1]
          /\ UNCHANGED list
        BY <1>5 DEF NextPass
    <2>6. /\ Len(q) >= Len(s) - k
          /\ \A j \in (k + 1)..Len(s) : q[Len(q) - Len(s) + j] = s[j]
        BY <2>1 DEF Ends
    <2> HIDE DEF s, k, q
    <2>7. p \in 1..Len(q) /\ p \in 0..Len(q) /\ p # 0 /\ (p = Len(q) <=> k + 1 = Len(s))
          /\ (p # Len(q) => (k + 2) \in (k + 1)..Len(s) /\ p + 1 = Len(q) - Len(s) + (k + 2))
          /\ (k + 1) \in (k + 1)..Len(s)
        <3> DEFINE a == Len(q)
                   b == Len(s)
        <3>1. a \in Nat /\ b \in Nat /\ k \in Nat /\ k + 1 \in 1..b /\ a >= b - k
            BY <2>2, <2>3, <2>6
        <3> HIDE DEF a, b
        <3>2. a - b + (k + 1) \in 1..a
            BY <3>1
        <3>3. a - b + (k + 1) = a <=> k + 1 = b
            BY <3>1
        <3>4. k + 1 # b => (k + 2) \in (k + 1)..b
            BY <3>1
        <3>5. (a - b + (k + 1)) + 1 = a - b + (k + 2) /\ (k + 1) \in (k + 1)..b
            BY <3>1
        <3>6. a - b + (k + 1) \in 0..a /\ a - b + (k + 1) # 0
            BY <3>1
        <3> QED BY <3>2, <3>3, <3>4, <3>5, <3>6, Zenon DEF a, b
    <2>8. q[p] = s[k + 1] /\ scan.tvar = q[p]
        <3>1. q[p] = s[k + 1]
            BY <2>6, <2>7
        <3>2. scan.tvar = s[k + 1]
            BY <2>1, <2>2
        <3> QED BY <3>1, <3>2
    <2>9. next[q[p]] = IF k + 1 = Len(s) THEN NULL ELSE s[k + 2]
        <3> HIDE DEF p
        <3>1. next[q[p]] = IF p = Len(q) THEN NULL ELSE q[p + 1]
            BY <2>4, <2>7 DEF At
        <3>2. p # Len(q) => q[p + 1] = s[k + 2]
            BY <2>6, <2>7
        <3> QED BY <2>7, <3>1, <3>2
    <2>10. /\ scan'.h = h /\ scan'.var = s[k + 1] /\ scan'.start = s /\ scan'.n = scan.n + 1
           /\ scan'.tvar = IF k + 1 = Len(s) THEN NULL ELSE s[k + 2]
           /\ scan' \in Loop
        <3>1. s[k + 1] \in Elems /\ next[scan.tvar] \in Elems \cup {NULL}
            <4>1. \A b, c \in Nat : c + 1 \in 1..b /\ c + 1 # b => c + 2 \in 1..b
                OBVIOUS
            <4>2. \A j \in 1..Len(s) : s[j] \in Elems
                BY <2>2
            <4>3. k + 1 # Len(s) => s[k + 2] \in Elems
                BY <2>2, <4>1, <4>2
            <4> QED BY <2>2, <2>8, <2>9, <4>2, <4>3
        <3> DEFINE e == s[k + 1]
                   f == next[scan.tvar]
        <3>2. scan.tvar = e /\ f = IF k + 1 = Len(s) THEN NULL ELSE s[k + 2]
            BY <2>8, <2>9
        <3>3. e \in Elems /\ f \in Elems \cup {NULL}
            BY <3>1
        <3>4. scan' = [scan EXCEPT !.var = e, !.tvar = f, !.n = @ + 1]
            BY <2>5, <3>2
        <3> HIDE DEF e, f
        <3>5. /\ scan'.h = scan.h /\ scan'.var = e /\ scan'.start = scan.start
              /\ scan'.n = scan.n + 1 /\ scan'.tvar = f
            BY <2>1, <3>4 DEF Loop
        <3>6. scan' \in Loop
            <4>1. scan' = [h |-> scan.h, var |-> e, tvar |-> f, start |-> scan.start, n |-> scan.n + 1]
                BY <2>1, <3>4 DEF Loop
            <4>2. scan.h \in Heads /\ scan.start \in Seq(Elems) /\ scan.n + 1 \in Nat
                BY <2>1 DEF Loop
            <4> QED BY <3>3, <4>1, <4>2 DEF Loop
        <3> QED BY <3>2, <3>5, <3>6 DEF e, s
    <2>11. Ends(q, s, k + 1)
        <3>1. Len(q) >= Len(s) - (k + 1)
            BY <2>2, <2>3, <2>6
        <3>2. \A j \in ((k + 1) + 1)..Len(s) : j \in (k + 1)..Len(s)
            BY <2>2
        <3> QED BY <2>6, <3>1, <3>2 DEF Ends
    <2>12. scan.n + 1 = k /\ (scan.n + 1) + 1 = k + 1 /\ (scan.n + 1) + 2 = k + 2 /\ k + 1 <= Len(s)
        BY <2>2 DEF k
    <2> QED BY <2>1, <2>5, <2>10, <2>11, <2>12 DEF LoopInv, q
<1>6. ASSUME scan = NULL, UNCHANGED scan PROVE LoopInv'
    BY <1>6 DEF LoopInv
<1>7. ASSUME NEW h \in Heads, Initialise(h) \/ RemoveHead(h) PROVE LoopInv'
    BY <1>6, <1>7 DEF Initialise, RemoveHead
<1>8. ASSUME NEW h \in Heads, NEW e \in Elems, InsertHead(h, e) \/ InsertTail(h, e)
      PROVE  LoopInv'
    BY <1>2, <1>8 DEF InsertHead, InsertTail, Put
<1>9. ASSUME NEW h \in Heads, NEW i \in DOMAIN list[h], RemoveAfter(h, i)
      PROVE  LoopInv'
    BY <1>6, <1>9 DEF RemoveAfter
<1>10. ASSUME NEW h \in Heads, NEW e \in Elems, NEW i \in DOMAIN list[h],
              InsertAfter(h, i, e) \/ InsertBefore(h, i, e)
       PROVE  LoopInv'
    BY <1>2, <1>10 DEF InsertAfter, InsertBefore, Put
<1>11. ASSUME NEW h \in Heads, NEW e \in Elems, NEW i \in DOMAIN list[h], Replace(h, i, e)
       PROVE  LoopInv'
    BY <1>6, <1>11 DEF Replace
<1>12. ASSUME NEW h \in Heads, NEW g \in Heads, Concat(h, g) PROVE LoopInv'
    BY <1>6, <1>12 DEF Concat
<1>13. CASE UNCHANGED vars
    BY <1>1, <1>13 DEF vars
<1> QED BY <1>3, <1>4, <1>5, <1>7, <1>8, <1>9, <1>10, <1>11, <1>12, <1>13 DEF Next

(***************************************************************************)
(* var and tvar are the next two elements to visit, or the last and NULL.  *)
(***************************************************************************)
LEMMA LoopSafe ==
    ASSUME LoopInv
    PROVE  SafeLoop
<1> SUFFICES ASSUME scan # NULL
             PROVE  LET rest == SubSeq(scan.start, scan.n + 1, Len(scan.start)) \o <<NULL>>
                    IN  Len(rest) >= 2 /\ scan.var = rest[1] /\ scan.tvar = rest[2]
    BY DEF SafeLoop
<1> DEFINE s == scan.start
           k == scan.n + 1
           S == Elems \cup {NULL}
           tail == SubSeq(s, k, Len(s))
           rest == tail \o <<NULL>>
<1>1. /\ scan \in Loop /\ k <= Len(s) /\ scan.var = s[k]
      /\ scan.tvar = IF k = Len(s) THEN NULL ELSE s[scan.n + 2]
    BY DEF LoopInv
<1>2. /\ s \in Seq(S) /\ scan.n \in Nat /\ Len(s) \in Nat /\ k \in 1..Len(s)
      /\ scan.n + 2 = k + 1
    BY <1>1 DEF Loop
<1> HIDE DEF s, k, S
<1>3. /\ tail \in Seq(S) /\ Len(tail) = Len(s) - k + 1
      /\ \A j \in 1..(Len(s) - k + 1) : tail[j] = s[k + j - 1]
    BY <1>2, SubSeqProperties
<1> HIDE DEF tail
<1>4. <<NULL>> \in Seq(S) /\ Len(<<NULL>>) = 1 /\ <<NULL>>[1] = NULL
    BY DEF S
<1>5. /\ Len(rest) = Len(tail) + 1
      /\ \A j \in 1..(Len(tail) + 1) :
            rest[j] = IF j <= Len(tail) THEN tail[j] ELSE <<NULL>>[j - Len(tail)]
    BY <1>3, <1>4, ConcatProperties
<1> HIDE DEF rest
<1>6. 1 \in 1..(Len(s) - k + 1) /\ k + 1 - 1 = k /\ 1 \in 1..(Len(tail) + 1) /\ 1 <= Len(tail)
      /\ 2 \in 1..(Len(tail) + 1) /\ Len(tail) + 1 >= 2
    BY <1>2, <1>3
<1>7. rest[1] = s[k]
    BY <1>3, <1>5, <1>6
<1>8. rest[2] = IF k = Len(s) THEN NULL ELSE s[k + 1]
    <2>1. CASE k = Len(s)
        <3>1. Len(tail) = 1 /\ ~(2 <= Len(tail)) /\ 2 - Len(tail) = 1
            BY <1>2, <1>3, <2>1
        <3> QED BY <1>4, <1>5, <1>6, <2>1, <3>1
    <2>2. CASE k # Len(s)
        <3>1. 2 <= Len(tail) /\ 2 \in 1..(Len(s) - k + 1) /\ k + 2 - 1 = k + 1
            BY <1>2, <1>3, <2>2
        <3> QED BY <1>3, <1>5, <1>6, <2>2, <3>1
    <2> QED BY <2>1, <2>2
<1> QED BY <1>1, <1>2, <1>5, <1>6, <1>7, <1>8 DEF rest, tail, s, k

(***************************************************************************)
(* A FOREACH_SAFE loop visits what was on the list when it began, in       *)
(* order, whatever its body does with var and with other lists.            *)
(***************************************************************************)
THEOREM SafeLoops == Spec => []SafeLoop
<1>1. Init => TypeOK /\ Links /\ LoopInv
    BY LinksInit DEF Init, LoopInv
<1>2. TypeOK /\ Links /\ LoopInv /\ [Next]_vars => (TypeOK /\ Links /\ LoopInv)'
    BY LinksStep, LoopStep
<1>3. LoopInv => SafeLoop
    BY LoopSafe
<1> QED BY <1>1, <1>2, <1>3, PTL DEF Spec

-----------------------------------------------------------------------------
(***************************************************************************)
(* The XOR simple queues. Dec is what the cells point to once the cookie   *)
(* each was written with is taken off, Tail that of the head; QNext, QLast *)
(* and QScan are the state of Queues that they stand for.                  *)
(***************************************************************************)
Xor(a, b) == (a \ b) \cup (b \ a)
XCell == XHeads \cup XElems

Dec == [c \in XCell |-> Xor(key[c], xnext[c])]
QNext == [c \in X!Cell |-> X!Pointer(X!Plain(c, xnext[c]))]
QLast == [h \in XHeads |-> X!XSIMPLEQ_XOR(h, xlast[h])]
QScan == IF xscan = NULL THEN NULL ELSE [xscan EXCEPT !.tvar = X!Pointer(@)]

XFunctions ==
    /\ cookie = [h \in XHeads |-> cookie[h]] /\ key = [c \in XCell |-> key[c]]
    /\ xnext = [c \in XCell |-> xnext[c]] /\ xlast = [h \in XHeads |-> xlast[h]]

XLists ==
    /\ xlist \in [XHeads -> Seq(XElems)]
    /\ \A h, g \in XHeads : \A i \in DOMAIN xlist[h], j \in DOMAIN xlist[g] :
          xlist[h][i] = xlist[g][j] => h = g /\ i = j

(***************************************************************************)
(* One queue: every cell of it was written with the cookie of its head,    *)
(* and the decoded pointers spell out its elements.                        *)
(***************************************************************************)
XQueueOK(h) ==
    /\ \A i \in 0..Len(xlist[h]) : key[At(h, xlist[h], i)] = cookie[h]
    /\ Spells(Dec, h, xlist[h], {})
    /\ Xor(cookie[h], xlast[h]) = At(h, xlist[h], Len(xlist[h]))

(***************************************************************************)
(* A FOREACH_SAFE loop is at an element of its queue, and tvar is the one  *)
(* behind it.                                                              *)
(***************************************************************************)
XLoopOK ==
    xscan # NULL =>
        /\ xscan \in [h : XHeads, var : XElems, tvar : XElems \cup {{}},
                       start : Seq(XElems), n : Nat]
        /\ \E i \in DOMAIN xlist[xscan.h] : xscan.var = xlist[xscan.h][i]
        /\ xscan.tvar = Dec[xscan.var]

XInv ==
    /\ XFunctions /\ XLists /\ Dec \in [XCell -> XElems \cup {{}}]
    /\ \A h \in XHeads : XQueueOK(h)
    /\ XLoopOK

(***************************************************************************)
(* A pointer combined with a cookie twice is the pointer.                  *)
(***************************************************************************)
LEMMA XorTwice ==
    ASSUME NEW a, NEW b PROVE Xor(a, Xor(a, b)) = b
BY DEF Xor

(***************************************************************************)
(* Combined with NULL a cookie is itself, and only a cookie combined with  *)
(* itself is NULL: what the macros compare with.                           *)
(***************************************************************************)
LEMMA XorNil ==
    ASSUME NEW a, NEW b
    PROVE  /\ Xor(a, {}) = a /\ Xor(a, b) = {} <=> a = b
           /\ b = Xor(a, {}) <=> Xor(a, b) = {}
BY DEF Xor

(***************************************************************************)
(* Addresses: heads, elements, the empty set of bits and NULL are apart.   *)
(***************************************************************************)
LEMMA XCells ==
    /\ X!Cell = XCell /\ XHeads \cap XElems = {} /\ {} \notin XCell /\ NULL \notin XCell
BY XAssumption DEF X!AddressAssumption, X!Cell, X!Nil, XCell

(***************************************************************************)
(* NULL is no loop.                                                        *)
(***************************************************************************)
LEMMA XLoops ==
    NULL \notin [h : XHeads, var : XElems, tvar : XElems \cup {{}, NULL},
                start : Seq(XElems), n : Nat]
BY XAssumption DEF X!AddressAssumption, X!Loop, X!Nil

(***************************************************************************)
(* The state of Queues in terms of the decoded pointers.                   *)
(***************************************************************************)
Ptr(v) == IF v = {} THEN NULL ELSE v

(***************************************************************************)
(* The pointers that Queues is given are the decoded ones.                 *)
(***************************************************************************)
LEMMA QState ==
    /\ QNext = [c \in XCell |-> Ptr(Dec[c])]
    /\ QNext' = [c \in XCell |-> Ptr(Dec'[c])]
    /\ QLast = [h \in XHeads |-> Xor(cookie[h], xlast[h])]
    /\ QLast' = [h \in XHeads |-> Xor(cookie'[h], xlast'[h])]
BY XCells DEF QNext, QLast, Dec, Ptr, Xor, X!Pointer, X!Plain, X!Nil, X!XSIMPLEQ_XOR

(***************************************************************************)
(* Queues are apart from each other, and from an element on none.          *)
(***************************************************************************)
LEMMA XListsApart ==
    ASSUME XLists
    PROVE  /\ \A h \in XHeads :
                 /\ xlist[h] \in Seq(XElems) /\ Distinct(xlist[h])
                 /\ Len(xlist[h]) \in Nat /\ DOMAIN xlist[h] = 1..Len(xlist[h])
                 /\ \A j \in 1..Len(xlist[h]) : xlist[h][j] \in XElems
                 /\ \A j \in 0..Len(xlist[h]) : At(h, xlist[h], j) \in XCell
                 /\ \A i, j \in 0..Len(xlist[h]) :
                       At(h, xlist[h], i) = At(h, xlist[h], j) => i = j
           /\ \A h, g \in XHeads : h # g =>
                 \A i \in 0..Len(xlist[h]), j \in 0..Len(xlist[g]) :
                    At(h, xlist[h], i) # At(g, xlist[g], j)
           /\ \A e \in XElems : ~X!OnList(e) =>
                 \A h \in XHeads : /\ \A j \in 1..Len(xlist[h]) : xlist[h][j] # e
                                   /\ \A j \in 0..Len(xlist[h]) : At(h, xlist[h], j) # e
<1>1. \A h \in XHeads : /\ xlist[h] \in Seq(XElems) /\ Distinct(xlist[h])
                         /\ Len(xlist[h]) \in Nat /\ DOMAIN xlist[h] = 1..Len(xlist[h])
                         /\ \A j \in 1..Len(xlist[h]) : xlist[h][j] \in XElems
    BY DEF XLists, Distinct
<1>2. \A h \in XHeads :
          /\ \A j \in 0..Len(xlist[h]) : At(h, xlist[h], j) \in XCell
          /\ \A i, j \in 0..Len(xlist[h]) : At(h, xlist[h], i) = At(h, xlist[h], j) => i = j
    BY <1>1, XCells, SpeltApart DEF XCell
<1>3. ASSUME NEW h \in XHeads, NEW g \in XHeads, h # g,
             NEW i \in 0..Len(xlist[h]), NEW j \in 0..Len(xlist[g])
      PROVE  At(h, xlist[h], i) # At(g, xlist[g], j)
    <2>1. i # 0 => i \in DOMAIN xlist[h] /\ xlist[h][i] \in XElems
        BY <1>1, <1>3
    <2>2. j # 0 => j \in DOMAIN xlist[g] /\ xlist[g][j] \in XElems
        BY <1>1, <1>3
    <2> QED BY <1>3, <2>1, <2>2, XCells DEF At, XLists
<1>4. ASSUME NEW e \in XElems, ~X!OnList(e), NEW h \in XHeads
      PROVE  /\ \A j \in 1..Len(xlist[h]) : xlist[h][j] # e
             /\ \A j \in 0..Len(xlist[h]) : At(h, xlist[h], j) # e
    <2>1. \A j \in 1..Len(xlist[h]) : xlist[h][j] # e
        BY <1>1, <1>4 DEF X!OnList, X!Range
    <2>2. h # e
        BY XCells
    <2> QED BY <2>1, <2>2 DEF At
<1> QED BY <1>1, <1>2, <1>3, <1>4

(***************************************************************************)
(* What the history variables of XQueues do to a sequence is an insertion  *)
(* or a removal, in the terms of both modules.                             *)
(***************************************************************************)
LEMMA XSequences ==
    ASSUME NEW q \in Seq(XElems)
    PROVE  /\ \A i \in 0..Len(q), e \in XElems :
                 InsertedIn(XElems, q, i, e, InsertAt(q, i + 1, e))
           /\ \A e \in XElems : InsertedIn(XElems, q, Len(q), e, Append(q, e))
           /\ \A i \in DOMAIN q : RemovedIn(XElems, q, i, RemoveAt(q, i))
           /\ \A i, e : X!InsertAt(q, i, e) = InsertAt(q, i, e)
           /\ \A i, e : X!Q!InsertAt(q, i, e) = InsertAt(q, i, e)
           /\ \A i : X!RemoveAt(q, i) = RemoveAt(q, i)
           /\ \A i : X!Q!RemoveAt(q, i) = RemoveAt(q, i)
           /\ q # <<>> => Tail(q) = RemoveAt(q, 1)
           /\ \A e \in XElems : <<e>> \o q = InsertAt(q, 1, e)
<1>1. ASSUME NEW i \in 0..Len(q), NEW e \in XElems
      PROVE  InsertedIn(XElems, q, i, e, InsertAt(q, i + 1, e))
    <2>1. PICK k \in 1..(Len(q) + 1) : k = i + 1 /\ k - 1 = i
        OBVIOUS
    <2> DEFINE r == InsertAt(q, k, e)
    <2>2. r \in Seq(XElems) /\ Len(r) = Len(q) + 1
        BY InsertAtElements
    <2>3. \A j \in 1..(k - 1) : r[j] = q[j]
        BY InsertAtElements
    <2>4. r[k] = e
        BY InsertAtElements
    <2>5. \A j \in k..Len(q) : r[j + 1] = q[j]
        BY InsertAtElements
    <2> HIDE DEF r
    <2>6. InsertedIn(XElems, q, i, e, r)
        BY <2>1, <2>2, <2>3, <2>4, <2>5 DEF InsertedIn
    <2> QED BY <2>1, <2>6 DEF r
<1>2. ASSUME NEW e \in XElems PROVE InsertedIn(XElems, q, Len(q), e, Append(q, e))
    <2> DEFINE r == Append(q, e)
    <2>1. Len(q) \in Nat
        OBVIOUS
    <2>2. /\ r \in Seq(XElems) /\ Len(r) = Len(q) + 1 /\ r[Len(q) + 1] = e
          /\ \A j \in 1..Len(q) : r[j] = q[j]
        OBVIOUS
    <2>3. \A j \in (Len(q) + 1)..Len(q) : FALSE
        BY <2>1
    <2> HIDE DEF r
    <2>4. InsertedIn(XElems, q, Len(q), e, r)
        BY <2>1, <2>2, <2>3 DEF InsertedIn
    <2> QED BY <2>4 DEF r
<1>3. \A i \in DOMAIN q : RemovedIn(XElems, q, i, RemoveAt(q, i))
    BY RemoveAtElements DEF RemovedIn
<1>4. /\ \A i, e : X!InsertAt(q, i, e) = InsertAt(q, i, e)
      /\ \A i, e : X!Q!InsertAt(q, i, e) = InsertAt(q, i, e)
    BY DEF InsertAt, X!InsertAt, X!Q!InsertAt
<1>5. /\ \A i : X!RemoveAt(q, i) = RemoveAt(q, i)
      /\ \A i : X!Q!RemoveAt(q, i) = RemoveAt(q, i)
    BY DEF RemoveAt, X!RemoveAt, X!Q!RemoveAt
<1>6. ASSUME q # <<>> PROVE Tail(q) = RemoveAt(q, 1)
    <2>1. 1 \in DOMAIN q /\ Len(q) \in Nat /\ Len(q) # 0
        BY <1>6
    <2>2. /\ Tail(q) \in Seq(XElems) /\ Len(Tail(q)) = Len(q) - 1
          /\ \A j \in 1..(Len(q) - 1) : Tail(q)[j] = q[j + 1]
        BY <1>6
    <2> DEFINE r == RemoveAt(q, 1)
    <2>3. /\ r \in Seq(XElems) /\ Len(r) = Len(q) - 1
          /\ \A j \in 1..(Len(q) - 1) : r[j] = q[j + 1]
        BY <1>3, <2>1 DEF RemovedIn
    <2> HIDE DEF r
    <2>4. Tail(q) = r
        BY <2>2, <2>3
    <2> QED BY <2>4 DEF r
<1>7. ASSUME NEW e \in XElems PROVE <<e>> \o q = InsertAt(q, 1, e)
    <2> DEFINE r == InsertAt(q, 1, e)
               s == <<e>> \o q
    <2>1. /\ s \in Seq(XElems) /\ Len(s) = Len(q) + 1 /\ s[1] = e
          /\ \A j \in 1..Len(q) : s[j + 1] = q[j]
        OBVIOUS
    <2>2. 0 \in 0..Len(q) /\ 0 + 1 = 1 /\ Len(q) \in Nat
        OBVIOUS
    <2>3. InsertedIn(XElems, q, 0, e, r)
        BY <1>1, <2>2
    <2>4. /\ r \in Seq(XElems) /\ Len(r) = Len(q) + 1 /\ r[1] = e
          /\ \A j \in 1..Len(q) : r[j + 1] = q[j]
        BY <2>2, <2>3 DEF InsertedIn
    <2> HIDE DEF r, s
    <2>5. \A j \in 1..(Len(q) + 1) : j = 1 \/ (j - 1 \in 1..Len(q) /\ (j - 1) + 1 = j)
        BY <2>2
    <2>6. \A j \in 1..(Len(q) + 1) : s[j] = r[j]
        BY <2>1, <2>4, <2>5
    <2>7. s = r
        BY <2>1, <2>4, <2>6
    <2> QED BY <2>7 DEF r, s
<1> QED BY <1>1, <1>2, <1>3, <1>4, <1>5, <1>6, <1>7

(***************************************************************************)
(* What the macros do to the decoded pointers: e is put behind cell i of a *)
(* queue, or element i is taken out, and the cells that were written have  *)
(* the cookie of the queue.                                                *)
(***************************************************************************)
XPut(h, i, e) ==
    LET c == At(h, xlist[h], i)
    IN  /\ XFunctions' /\ cookie' = cookie
        /\ key' = [x \in XCell |-> IF x \in {c, e} THEN cookie[h] ELSE key[x]]
        /\ Dec' = [Dec EXCEPT ![e] = Dec[c], ![c] = e]
        /\ QLast' = IF Dec[c] = {} THEN [QLast EXCEPT ![h] = e] ELSE QLast

XTake(h, i) ==
    LET c == At(h, xlist[h], i - 1)
        d == Dec[xlist[h][i]]
    IN  /\ XFunctions' /\ cookie' = cookie /\ key' = key
        /\ Dec' = [Dec EXCEPT ![c] = d]
        /\ QLast' = IF d = {} THEN [QLast EXCEPT ![h] = c] ELSE QLast

(***************************************************************************)
(* A cell of a queue, decoded with the cookie of its head, points to the   *)
(* next element.                                                           *)
(***************************************************************************)
LEMMA DecAt ==
    ASSUME XInv, NEW h \in XHeads, NEW i \in 0..Len(xlist[h])
    PROVE  LET c == At(h, xlist[h], i)
           IN  /\ c \in XCell /\ key[c] = cookie[h] /\ Dec[c] = Xor(cookie[h], xnext[c])
               /\ Dec[c] = IF i = Len(xlist[h]) THEN {} ELSE xlist[h][i + 1]
               /\ xnext[c] = Xor(cookie[h], {}) <=> Dec[c] = {}
<1> DEFINE c == At(h, xlist[h], i)
<1>1. c \in XCell
    BY XListsApart DEF XInv
<1>2. /\ key[c] = cookie[h]
      /\ Dec[c] = IF i = Len(xlist[h]) THEN {} ELSE xlist[h][i + 1]
    BY DEF XInv, XQueueOK, Spells
<1> HIDE DEF c
<1>3. Dec[c] = Xor(cookie[h], xnext[c])
    BY <1>1, <1>2 DEF Dec
<1>4. xnext[c] = Xor(cookie[h], {}) <=> Dec[c] = {}
    BY <1>3, XorNil
<1> QED BY <1>1, <1>2, <1>3, <1>4 DEF c

(***************************************************************************)
(* The assignments of an insertion behind cell i, seen decoded: the        *)
(* pointer of the cell is copied undecoded into the element, which needs   *)
(* that it was written with the cookie of the same head.                   *)
(***************************************************************************)
LEMMA CellPut ==
    ASSUME XInv, NEW h \in XHeads, NEW e \in XElems, ~X!OnList(e),
           NEW i \in 0..Len(xlist[h]), cookie' = cookie,
           LET c == At(h, xlist[h], i)
           IN  /\ xnext' = [xnext EXCEPT ![e] = xnext[c], ![c] = Xor(cookie[h], e)]
               /\ xlast' = IF xnext[c] = Xor(cookie[h], {})
                           THEN [xlast EXCEPT ![h] = Xor(cookie[h], e)] ELSE xlast
               /\ key' = [x \in XCell |-> IF x \in {c, e} THEN cookie[h] ELSE key[x]]
    PROVE  XPut(h, i, e)
<1> DEFINE c == At(h, xlist[h], i)
<1>1. /\ c \in XCell /\ e \in XCell /\ c # e
      /\ key[c] = cookie[h] /\ Dec[c] = Xor(cookie[h], xnext[c])
      /\ xnext[c] = Xor(cookie[h], {}) <=> Dec[c] = {}
    BY DecAt, XListsApart DEF XInv, XCell
<1>2. /\ xnext' = [xnext EXCEPT ![e] = xnext[c], ![c] = Xor(cookie[h], e)]
      /\ xlast' = IF xnext[c] = Xor(cookie[h], {})
                  THEN [xlast EXCEPT ![h] = Xor(cookie[h], e)] ELSE xlast
      /\ key' = [x \in XCell |-> IF x \in {c, e} THEN cookie[h] ELSE key[x]]
    OBVIOUS
<1> HIDE DEF c
<1>3. /\ cookie = [g \in XHeads |-> cookie[g]] /\ key = [x \in XCell |-> key[x]]
      /\ xnext = [x \in XCell |-> xnext[x]] /\ xlast = [g \in XHeads |-> xlast[g]]
    BY DEF XInv, XFunctions
<1>4. XFunctions'
    BY <1>2, <1>3 DEF XFunctions
<1>5. /\ xnext'[e] = xnext[c] /\ xnext'[c] = Xor(cookie[h], e)
      /\ \A x \in XCell : x # e /\ x # c => xnext'[x] = xnext[x]
    BY <1>1, <1>2, <1>3
<1>6. Dec' = [x \in XCell |-> Xor(key'[x], xnext'[x])]
    BY DEF Dec
<1>7. /\ Dec'[e] = Dec[c] /\ Dec'[c] = e
      /\ \A x \in XCell : x # e /\ x # c => Dec'[x] = Dec[x]
    <2>1. key'[e] = cookie[h] /\ key'[c] = cookie[h]
        BY <1>1, <1>2
    <2>2. Dec'[e] = Xor(cookie[h], xnext[c])
        BY <1>1, <1>5, <1>6, <2>1
    <2>3. Dec'[c] = Xor(cookie[h], Xor(cookie[h], e))
        BY <1>1, <1>5, <1>6, <2>1
    <2>4. ASSUME NEW x \in XCell, x # e, x # c PROVE Dec'[x] = Dec[x]
        BY <1>2, <1>5, <1>6, <2>4 DEF Dec
    <2> QED BY <1>1, <2>2, <2>3, <2>4, XorTwice
<1>8. DOMAIN Dec = XCell /\ Dec = [x \in XCell |-> Dec[x]]
    BY DEF Dec
<1>9. Dec' = [Dec EXCEPT ![e] = Dec[c], ![c] = e]
    <2>1. DOMAIN Dec' = XCell /\ Dec' = [x \in XCell |-> Dec'[x]]
        BY <1>6
    <2> HIDE DEF Dec
    <2> QED BY <1>1, <1>7, <1>8, <2>1
<1>10. QLast' = IF Dec[c] = {} THEN [QLast EXCEPT ![h] = e] ELSE QLast
    <2>1. /\ QLast = [g \in XHeads |-> Xor(cookie[g], xlast[g])]
          /\ QLast' = [g \in XHeads |-> Xor(cookie[g], xlast'[g])]
        BY QState
    <2>2. CASE Dec[c] = {}
        <3>1. xlast' = [xlast EXCEPT ![h] = Xor(cookie[h], e)]
            BY <1>1, <1>2, <2>2
        <3>2. xlast'[h] = Xor(cookie[h], e) /\ \A g \in XHeads : g # h => xlast'[g] = xlast[g]
            BY <1>3, <3>1
        <3>3. QLast' = [QLast EXCEPT ![h] = e]
            BY <2>1, <3>2, XorTwice
        <3> QED BY <2>2, <3>3
    <2>3. CASE Dec[c] # {}
        BY <1>1, <1>2, <2>1, <2>3
    <2> QED BY <2>2, <2>3
<1> QED BY <1>2, <1>4, <1>9, <1>10 DEF XPut, c

(***************************************************************************)
(* The assignments of a removal, seen decoded.                             *)
(***************************************************************************)
LEMMA CellTake ==
    ASSUME XInv, NEW h \in XHeads, NEW i \in 1..Len(xlist[h]), cookie' = cookie,
           LET c == At(h, xlist[h], i - 1)
               v == xnext[xlist[h][i]]
           IN  /\ xnext' = [xnext EXCEPT ![c] = v]
               /\ xlast' = IF v = Xor(cookie[h], {})
                           THEN [xlast EXCEPT ![h] = Xor(cookie[h], c)] ELSE xlast
               /\ key' = [x \in XCell |-> IF x \in {c} THEN cookie[h] ELSE key[x]]
    PROVE  XTake(h, i)
<1> DEFINE c == At(h, xlist[h], i - 1)
           e == xlist[h][i]
<1>0. i - 1 \in 0..Len(xlist[h]) /\ i \in 0..Len(xlist[h]) /\ At(h, xlist[h], i) = e
    <2>1. Len(xlist[h]) \in Nat
        BY XListsApart DEF XInv
    <2> QED BY <2>1 DEF At
<1>1. /\ c \in XCell /\ e \in XCell
      /\ key[c] = cookie[h] /\ Dec[e] = Xor(cookie[h], xnext[e])
      /\ xnext[e] = Xor(cookie[h], {}) <=> Dec[e] = {}
    BY <1>0, DecAt
<1>2. /\ xnext' = [xnext EXCEPT ![c] = xnext[e]]
      /\ xlast' = IF xnext[e] = Xor(cookie[h], {})
                  THEN [xlast EXCEPT ![h] = Xor(cookie[h], c)] ELSE xlast
      /\ key' = [x \in XCell |-> IF x \in {c} THEN cookie[h] ELSE key[x]]
    OBVIOUS
<1> HIDE DEF c, e
<1>3. /\ cookie = [g \in XHeads |-> cookie[g]] /\ key = [x \in XCell |-> key[x]]
      /\ xnext = [x \in XCell |-> xnext[x]] /\ xlast = [g \in XHeads |-> xlast[g]]
    BY DEF XInv, XFunctions
<1>4. key' = key
    BY <1>1, <1>2, <1>3
<1>5. XFunctions'
    BY <1>2, <1>3, <1>4 DEF XFunctions
<1>6. Dec' = [Dec EXCEPT ![c] = Dec[e]]
    <2>1. xnext'[c] = xnext[e] /\ \A x \in XCell : x # c => xnext'[x] = xnext[x]
        BY <1>1, <1>2, <1>3
    <2>2. Dec' = [x \in XCell |-> Xor(key[x], xnext'[x])]
        BY <1>4 DEF Dec
    <2>3. Dec'[c] = Dec[e]
        BY <1>1, <2>1, <2>2
    <2>4. \A x \in XCell : x # c => Dec'[x] = Dec[x]
        BY <2>1, <2>2 DEF Dec
    <2>5. Dec' = [x \in XCell |-> Dec'[x]] /\ Dec = [x \in XCell |-> Dec[x]]
        BY <2>2 DEF Dec
    <2> HIDE DEF Dec
    <2> QED BY <1>1, <2>3, <2>4, <2>5
<1>7. QLast' = IF Dec[e] = {} THEN [QLast EXCEPT ![h] = c] ELSE QLast
    <2>1. /\ QLast = [g \in XHeads |-> Xor(cookie[g], xlast[g])]
          /\ QLast' = [g \in XHeads |-> Xor(cookie[g], xlast'[g])]
        BY QState
    <2>2. CASE Dec[e] = {}
        <3>1. xlast' = [xlast EXCEPT ![h] = Xor(cookie[h], c)]
            BY <1>1, <1>2, <2>2
        <3>2. xlast'[h] = Xor(cookie[h], c) /\ \A g \in XHeads : g # h => xlast'[g] = xlast[g]
            BY <1>3, <3>1
        <3>3. QLast' = [QLast EXCEPT ![h] = c]
            BY <2>1, <3>2, XorTwice
        <3> QED BY <2>2, <3>3
    <2>3. CASE Dec[e] # {}
        BY <1>1, <1>2, <2>1, <2>3
    <2> QED BY <2>2, <2>3
<1> QED BY <1>4, <1>5, <1>6, <1>7 DEF XTake, c, e

(***************************************************************************)
(* Each macro, as one of the two.                                          *)
(***************************************************************************)
LEMMA XorOf ==
    ASSUME NEW h, NEW v PROVE X!XSIMPLEQ_XOR(h, v) = Xor(cookie[h], v)
BY DEF X!XSIMPLEQ_XOR, Xor

(***************************************************************************)
(* Every insertion macro makes the assignments of CellPut, at its cell.    *)
(***************************************************************************)
LEMMA InsertMacros ==
    ASSUME XInv, NEW h \in XHeads, NEW e \in XElems, ~X!OnList(e), cookie' = cookie
    PROVE  /\ X!XSIMPLEQ_INSERT_HEAD(h, e) => XPut(h, 0, e)
           /\ X!XSIMPLEQ_INSERT_TAIL(h, e) => XPut(h, Len(xlist[h]), e)
           /\ \A i \in DOMAIN xlist[h] :
                 X!XSIMPLEQ_INSERT_AFTER(h, xlist[h][i], e) => XPut(h, i, e)
<1>1. /\ Len(xlist[h]) \in Nat /\ 0 \in 0..Len(xlist[h]) /\ Len(xlist[h]) \in 0..Len(xlist[h])
      /\ \A i \in DOMAIN xlist[h] : i \in 0..Len(xlist[h]) /\ At(h, xlist[h], i) = xlist[h][i]
      /\ At(h, xlist[h], 0) = h
    <2>1. Len(xlist[h]) \in Nat /\ DOMAIN xlist[h] = 1..Len(xlist[h])
        BY XListsApart DEF XInv
    <2> QED BY <2>1 DEF At
<1>2. ASSUME X!XSIMPLEQ_INSERT_HEAD(h, e) PROVE XPut(h, 0, e)
    <2>1. /\ xnext' = [xnext EXCEPT ![e] = xnext[h], ![h] = Xor(cookie[h], e)]
          /\ xlast' = IF xnext[h] = Xor(cookie[h], {})
                      THEN [xlast EXCEPT ![h] = Xor(cookie[h], e)] ELSE xlast
          /\ key' = [x \in XCell |-> IF x \in {h, e} THEN cookie[h] ELSE key[x]]
        BY <1>2, XorOf, XCells DEF X!XSIMPLEQ_INSERT_HEAD, X!IfEmpty, X!Written, X!Nil
    <2> QED BY <1>1, <2>1, CellPut
<1>3. ASSUME NEW i \in DOMAIN xlist[h], X!XSIMPLEQ_INSERT_AFTER(h, xlist[h][i], e)
      PROVE  XPut(h, i, e)
    <2> DEFINE c == xlist[h][i]
    <2>1. /\ xnext' = [xnext EXCEPT ![e] = xnext[c], ![c] = Xor(cookie[h], e)]
          /\ xlast' = IF xnext[c] = Xor(cookie[h], {})
                      THEN [xlast EXCEPT ![h] = Xor(cookie[h], e)] ELSE xlast
          /\ key' = [x \in XCell |-> IF x \in {c, e} THEN cookie[h] ELSE key[x]]
        BY <1>3, XorOf, XCells DEF X!XSIMPLEQ_INSERT_AFTER, X!IfEmpty, X!Written, X!Nil
    <2>2. c = At(h, xlist[h], i) /\ i \in 0..Len(xlist[h])
        BY <1>1
    <2> HIDE DEF c
    <2> QED BY <2>1, <2>2, CellPut
<1>4. ASSUME X!XSIMPLEQ_INSERT_TAIL(h, e) PROVE XPut(h, Len(xlist[h]), e)
    <2> DEFINE c == At(h, xlist[h], Len(xlist[h]))
    <2>1. Xor(cookie[h], xlast[h]) = c
        BY DEF XInv, XQueueOK
    <2>2. c \in XCell /\ xnext[c] = Xor(cookie[h], {})
        BY <1>1, DecAt
    <2>3. /\ xnext' = [xnext EXCEPT ![e] = xnext[c], ![c] = Xor(cookie[h], e)]
          /\ xlast' = [xlast EXCEPT ![h] = Xor(cookie[h], e)]
          /\ key' = [x \in XCell |-> IF x \in {c, e} THEN cookie[h] ELSE key[x]]
        <3> HIDE DEF c
        <3> QED BY <1>4, <2>1, <2>2, XorOf, XCells
                DEF X!XSIMPLEQ_INSERT_TAIL, X!Written, X!Nil
    <2> HIDE DEF c
    <2>4. xlast' = IF xnext[c] = Xor(cookie[h], {})
                   THEN [xlast EXCEPT ![h] = Xor(cookie[h], e)] ELSE xlast
        BY <2>2, <2>3
    <2> QED BY <1>1, <2>3, <2>4, CellPut DEF c
<1> QED BY <1>2, <1>3, <1>4

(***************************************************************************)
(* Every removal macro makes the assignments of CellTake, at its cell.     *)
(***************************************************************************)
LEMMA RemoveMacros ==
    ASSUME XInv, NEW h \in XHeads, cookie' = cookie
    PROVE  /\ xlist[h] # <<>> /\ X!XSIMPLEQ_REMOVE_HEAD(h) => XTake(h, 1)
           /\ \A i \in 1..(Len(xlist[h]) - 1) :
                 X!XSIMPLEQ_REMOVE_AFTER(h, xlist[h][i]) => XTake(h, i + 1)
<1>1. Len(xlist[h]) \in Nat /\ xlist[h] \in Seq(XElems)
    BY XListsApart DEF XInv
<1>2. ASSUME xlist[h] # <<>>, X!XSIMPLEQ_REMOVE_HEAD(h) PROVE XTake(h, 1)
    <2>1. Len(xlist[h]) # 0 /\ 1 \in 1..Len(xlist[h]) /\ 0 \in 0..Len(xlist[h]) /\ 0 + 1 = 1
        BY <1>1, <1>2
    <2>2. At(h, xlist[h], 0) = h /\ 1 - 1 = 0
        BY DEF At
    <2>3. Xor(cookie[h], xnext[h]) = xlist[h][1]
        BY <2>1, <2>2, DecAt
    <2> DEFINE v == xnext[xlist[h][1]]
    <2>4. /\ xnext' = [xnext EXCEPT ![h] = v]
          /\ xlast' = IF v = Xor(cookie[h], {})
                      THEN [xlast EXCEPT ![h] = Xor(cookie[h], h)] ELSE xlast
          /\ key' = [x \in XCell |-> IF x \in {h} THEN cookie[h] ELSE key[x]]
        BY <1>2, <2>3, XorOf, XCells
           DEF X!XSIMPLEQ_REMOVE_HEAD, X!XSIMPLEQ_FIRST, X!IfEmpty, X!Written, X!Nil
    <2> QED BY <2>1, <2>2, <2>4, CellTake
<1>3. ASSUME NEW i \in 1..(Len(xlist[h]) - 1), X!XSIMPLEQ_REMOVE_AFTER(h, xlist[h][i])
      PROVE  XTake(h, i + 1)
    <2> DEFINE c == xlist[h][i]
               v == xnext[xlist[h][i + 1]]
    <2>1. /\ i \in 0..Len(xlist[h]) /\ i # Len(xlist[h]) /\ i # 0
          /\ i + 1 \in 1..Len(xlist[h]) /\ (i + 1) - 1 = i
        BY <1>1
    <2>2. At(h, xlist[h], i) = c
        BY <2>1 DEF At
    <2>3. Xor(cookie[h], xnext[c]) = xlist[h][i + 1]
        BY <2>1, <2>2, DecAt
    <2>4. /\ xnext' = [xnext EXCEPT ![c] = v]
          /\ xlast' = IF v = Xor(cookie[h], {})
                      THEN [xlast EXCEPT ![h] = Xor(cookie[h], c)] ELSE xlast
          /\ key' = [x \in XCell |-> IF x \in {c} THEN cookie[h] ELSE key[x]]
        BY <1>3, <2>3, XorOf, XCells
           DEF X!XSIMPLEQ_REMOVE_AFTER, X!XSIMPLEQ_NEXT, X!IfEmpty, X!Written, X!Nil
    <2>5. PICK k \in 1..Len(xlist[h]) : k = i + 1 /\ k - 1 = i
        BY <2>1
    <2>6. c = At(h, xlist[h], k - 1) /\ v = xnext[xlist[h][k]]
        BY <2>2, <2>5
    <2> HIDE DEF c, v
    <2>7. XTake(h, k)
        BY <2>4, <2>6, CellTake
    <2> QED BY <2>5, <2>7
<1> QED BY <1>2, <1>3

(***************************************************************************)
(* Where the elements of the longer and of the shorter sequence come from. *)
(***************************************************************************)
LEMMA InsertedPlaces ==
    ASSUME NEW S, NEW q \in Seq(S), NEW i \in 0..Len(q), NEW e, NEW r,
           InsertedIn(S, q, i, e, r), NEW m \in DOMAIN r
    PROVE  /\ m = i + 1 => r[m] = e
           /\ m # i + 1 => LET k == IF m <= i THEN m ELSE m - 1
                           IN  k \in DOMAIN q /\ r[m] = q[k]
<1>1. Len(q) \in Nat /\ DOMAIN q = 1..Len(q) /\ DOMAIN r = 1..(Len(q) + 1)
    BY DEF InsertedIn
<1>2. CASE m <= i
    BY <1>1, <1>2 DEF InsertedIn
<1>3. CASE m = i + 1
    BY <1>1, <1>3 DEF InsertedIn
<1>4. CASE m > i + 1
    <2>1. m - 1 \in (i + 1)..Len(q) /\ m - 1 \in 1..Len(q) /\ (m - 1) + 1 = m
        BY <1>1, <1>4
    <2>2. r[m] = q[m - 1]
        BY <2>1 DEF InsertedIn
    <2> QED BY <1>1, <1>4, <2>1, <2>2
<1> QED BY <1>1, <1>2, <1>3, <1>4

(***************************************************************************)
(* Where an element of the shorter sequence was.                           *)
(***************************************************************************)
LEMMA RemovedPlaces ==
    ASSUME NEW S, NEW q \in Seq(S), NEW i \in 1..Len(q), NEW r,
           RemovedIn(S, q, i, r), NEW m \in DOMAIN r
    PROVE  LET k == IF m < i THEN m ELSE m + 1 IN k \in DOMAIN q /\ r[m] = q[k]
<1>1. Len(q) \in Nat /\ DOMAIN q = 1..Len(q) /\ DOMAIN r = 1..(Len(q) - 1)
    BY DEF RemovedIn
<1> QED BY <1>1 DEF RemovedIn

(***************************************************************************)
(* An insertion keeps XInv: the queue it changes and the others.           *)
(***************************************************************************)
LEMMA XPutKeeps ==
    ASSUME XInv, NEW h \in XHeads, NEW e \in XElems, ~X!OnList(e), xscan = NULL,
           NEW i \in 0..Len(xlist[h]), XPut(h, i, e), xscan' = xscan,
           NEW r, InsertedIn(XElems, xlist[h], i, e, r), xlist' = [xlist EXCEPT ![h] = r]
    PROVE  XInv'
<1> DEFINE q == xlist[h]
           c == At(h, q, i)
<1>1. /\ q \in Seq(XElems) /\ Distinct(q) /\ Len(q) \in Nat /\ DOMAIN q = 1..Len(q)
      /\ \A j \in 1..Len(q) : q[j] \in XElems /\ q[j] # e
      /\ \A j \in 0..Len(q) : At(h, q, j) # e
      /\ c \in XCell /\ e \in XCell /\ c # e /\ h \in XCell
    BY XListsApart DEF XInv, XCell
<1>2. /\ XFunctions' /\ cookie' = cookie
      /\ key' = [x \in XCell |-> IF x \in {c, e} THEN cookie[h] ELSE key[x]]
      /\ Dec' = [Dec EXCEPT ![e] = Dec[c], ![c] = e]
      /\ QLast' = IF Dec[c] = {} THEN [QLast EXCEPT ![h] = e] ELSE QLast
    BY DEF XPut
<1>3. /\ r \in Seq(XElems) /\ Len(r) = Len(q) + 1 /\ DOMAIN r = 1..(Len(q) + 1)
      /\ Len(r) \in Nat
    BY <1>1 DEF InsertedIn
<1>4. /\ xlist'[h] = r /\ \A g \in XHeads : g # h => xlist'[g] = xlist[g]
      /\ xlist' \in [XHeads -> Seq(XElems)]
    BY <1>3 DEF XInv, XLists
<1>5. /\ Dec \in [XCell -> XElems \cup {{}}]
      /\ Dec' \in [XCell -> XElems \cup {{}}]
      /\ \A x \in XCell : x # e /\ x # c => Dec'[x] = Dec[x]
    <2>1. Dec \in [XCell -> XElems \cup {{}}]
        BY DEF XInv
    <2> QED BY <1>1, <1>2, <2>1
<1>6. \A g \in XHeads : XQueueOK(g)
    BY DEF XInv
<1>7. \A g \in XHeads : /\ QLast[g] = Xor(cookie[g], xlast[g])
                         /\ QLast'[g] = Xor(cookie'[g], xlast'[g])
    BY QState
<1>8. DOMAIN QLast = XHeads
    BY QState
<1>9. Dec[c] = IF i = Len(q) THEN {} ELSE q[i + 1]
    BY DecAt
<1> HIDE DEF c
<1>10. XQueueOK(h)'
    <2>1. ASSUME NEW j \in 0..Len(r) PROVE key'[At(h, r, j)] = cookie'[h]
        <3>1. CASE j = 0
            <4>1. key[h] = cookie[h]
                BY <1>1, <1>6 DEF XQueueOK, At
            <4> QED BY <1>1, <1>2, <3>1, <4>1 DEF At
        <3>2. CASE j # 0
            <4>1. j \in DOMAIN r
                BY <1>3, <3>2
            <4>2. CASE j = i + 1
                <5>1. r[j] = e
                    BY <1>1, <4>1, <4>2, InsertedPlaces
                <5> QED BY <1>1, <1>2, <3>2, <5>1 DEF At
            <4>3. CASE j # i + 1
                <5>0. LET k == IF j <= i THEN j ELSE j - 1
                      IN  k \in DOMAIN q /\ r[j] = q[k]
                    BY <1>1, <4>1, <4>3, InsertedPlaces
                <5>1. PICK k \in DOMAIN q : r[j] = q[k]
                    BY <5>0
                <5>2. key[q[k]] = cookie[h] /\ q[k] \in XCell
                    BY <1>1, <1>6, <5>1 DEF XQueueOK, At, XCell
                <5> QED BY <1>2, <3>2, <5>1, <5>2 DEF At
            <4> QED BY <4>2, <4>3
        <3> QED BY <3>1, <3>2
    <2>2. Spells(Dec', h, r, {})
        <3>1. Spells(Dec, h, q, {})
            BY <1>6 DEF XQueueOK
        <3> HIDE DEF q
        <3>2. Spells([Dec EXCEPT ![e] = Dec[At(h, q, i)], ![At(h, q, i)] = e], h, r, {})
            BY <1>1, <1>5, <3>1, XCells, SpellsInsert DEF XCell, q
        <3> QED BY <1>2, <3>2 DEF c
    <2>3. QLast'[h] = At(h, r, Len(r))
        <3>1. CASE i = Len(q)
            <4>1. r[Len(r)] = e /\ Len(r) # 0
                BY <1>1, <1>3, <3>1 DEF InsertedIn
            <4> QED BY <1>2, <1>8, <1>9, <3>1, <4>1 DEF At
        <3>2. CASE i # Len(q)
            <4>1. Len(q) \in (i + 1)..Len(q) /\ i + 1 \in 1..Len(q) /\ Len(r) # 0 /\ Len(q) # 0
                BY <1>1, <1>3, <3>2
            <4>2. At(h, r, Len(r)) = At(h, q, Len(q))
                BY <1>3, <4>1 DEF At, InsertedIn
            <4>3. Dec[c] # {}
                BY <1>1, <1>9, <3>2, <4>1, XCells DEF XCell
            <4> QED BY <1>2, <1>6, <1>7, <4>2, <4>3 DEF XQueueOK
        <3> QED BY <3>1, <3>2
    <2> QED BY <1>4, <1>7, <2>1, <2>2, <2>3 DEF XQueueOK
<1>11. ASSUME NEW g \in XHeads, g # h PROVE XQueueOK(g)'
    <2>1. /\ Len(xlist[g]) \in Nat
          /\ \A j \in 0..Len(xlist[g]) : /\ At(g, xlist[g], j) \in XCell
                                         /\ At(g, xlist[g], j) # c
                                         /\ At(g, xlist[g], j) # e
        BY <1>1, <1>11, XListsApart DEF XInv, c
    <2>2. \A j \in 0..Len(xlist[g]) : /\ key'[At(g, xlist[g], j)] = key[At(g, xlist[g], j)]
                                     /\ Dec'[At(g, xlist[g], j)] = Dec[At(g, xlist[g], j)]
        BY <1>2, <1>5, <2>1
    <2>3. QLast'[g] = QLast[g]
        BY <1>2, <1>8, <1>11
    <2>4. xlist'[g] = xlist[g]
        BY <1>4, <1>11
    <2>5. \A j \in 0..Len(xlist[g]) : key'[At(g, xlist[g], j)] = cookie'[g]
        BY <1>2, <1>6, <2>2 DEF XQueueOK
    <2>6. Spells(Dec', g, xlist[g], {})
        BY <1>6, <2>2 DEF XQueueOK, Spells
    <2>7. Xor(cookie'[g], xlast'[g]) = At(g, xlist[g], Len(xlist[g]))
        BY <1>6, <1>7, <2>3 DEF XQueueOK
    <2> QED BY <2>4, <2>5, <2>6, <2>7 DEF XQueueOK
<1>12. XLists'
    <2>1. ASSUME NEW f \in XHeads, NEW g \in XHeads, NEW k \in DOMAIN xlist'[f],
                 NEW j \in DOMAIN xlist'[g], xlist'[f][k] = xlist'[g][j]
          PROVE  f = g /\ k = j
        <3> DEFINE old(m) == IF m <= i THEN m ELSE m - 1
        <3>1. ASSUME NEW m \in DOMAIN r
              PROVE  /\ m = i + 1 => r[m] = e
                     /\ m # i + 1 => old(m) \in DOMAIN q /\ r[m] = q[old(m)] /\ r[m] # e
            BY <1>1, InsertedPlaces
        <3>2. /\ \A x \in XHeads : \A m \in DOMAIN xlist[x] : xlist[x][m] # e
              /\ \A x \in XHeads : DOMAIN xlist[x] = 1..Len(xlist[x])
            BY XListsApart DEF XInv
        <3>3. CASE f = h /\ g = h
            <4>1. k \in DOMAIN r /\ j \in DOMAIN r /\ r[k] = r[j]
                BY <1>4, <2>1, <3>3
            <4>2. k # i + 1 /\ j # i + 1 => old(k) = old(j)
                BY <1>1, <3>1, <4>1 DEF Distinct
            <4> QED BY <1>1, <1>3, <3>1, <3>3, <4>1, <4>2
        <3>4. CASE f = h /\ g # h
            <4>1. k \in DOMAIN r /\ j \in DOMAIN xlist[g] /\ r[k] = xlist[g][j]
                BY <1>4, <2>1, <3>4
            <4> QED BY <3>1, <3>2, <3>4, <4>1 DEF XInv, XLists
        <3>5. CASE f # h /\ g = h
            <4>1. k \in DOMAIN xlist[f] /\ j \in DOMAIN r /\ r[j] = xlist[f][k]
                BY <1>4, <2>1, <3>5
            <4> QED BY <3>1, <3>2, <3>5, <4>1 DEF XInv, XLists
        <3>6. CASE f # h /\ g # h
            <4>1. xlist'[f] = xlist[f] /\ xlist'[g] = xlist[g]
                BY <1>4, <3>6
            <4> QED BY <2>1, <4>1 DEF XInv, XLists
        <3> QED BY <3>3, <3>4, <3>5, <3>6
    <2> QED BY <1>4, <2>1 DEF XLists
<1>13. XLoopOK'
    BY DEF XLoopOK
<1> QED BY <1>2, <1>5, <1>10, <1>11, <1>12, <1>13 DEF XInv

(***************************************************************************)
(* A removal keeps XInv: the queue it changes and the others.              *)
(***************************************************************************)
LEMMA XTakeKeeps ==
    ASSUME XInv, NEW h \in XHeads, xscan = NULL,
           NEW i \in 1..Len(xlist[h]), XTake(h, i), xscan' = xscan,
           NEW r, RemovedIn(XElems, xlist[h], i, r), xlist' = [xlist EXCEPT ![h] = r]
    PROVE  XInv'
<1> DEFINE q == xlist[h]
           c == At(h, q, i - 1)
           d == Dec[q[i]]
<1>1. /\ q \in Seq(XElems) /\ Distinct(q) /\ Len(q) \in Nat /\ DOMAIN q = 1..Len(q)
      /\ \A j \in 1..Len(q) : q[j] \in XElems
      /\ i - 1 \in 0..Len(q) /\ i \in 0..Len(q) /\ At(h, q, i) = q[i]
    BY XListsApart DEF XInv, At
<1>2. c \in XCell /\ q[i] \in XCell /\ d = IF i = Len(q) THEN {} ELSE q[i + 1]
    BY <1>1, DecAt
<1>3. /\ XFunctions' /\ cookie' = cookie /\ key' = key
      /\ Dec' = [Dec EXCEPT ![c] = d]
      /\ QLast' = IF d = {} THEN [QLast EXCEPT ![h] = c] ELSE QLast
    BY DEF XTake
<1>4. /\ r \in Seq(XElems) /\ Len(r) = Len(q) - 1 /\ DOMAIN r = 1..(Len(q) - 1)
      /\ Len(r) \in Nat
    BY <1>1 DEF RemovedIn
<1>5. /\ xlist'[h] = r /\ \A g \in XHeads : g # h => xlist'[g] = xlist[g]
      /\ xlist' \in [XHeads -> Seq(XElems)]
    BY <1>4 DEF XInv, XLists
<1>6. /\ Dec \in [XCell -> XElems \cup {{}}]
      /\ Dec' \in [XCell -> XElems \cup {{}}]
      /\ \A x \in XCell : x # c => Dec'[x] = Dec[x]
    <2>1. Dec \in [XCell -> XElems \cup {{}}]
        BY DEF XInv
    <2>2. d \in XElems \cup {{}}
        BY <1>2, <2>1
    <2> HIDE DEF c, d
    <2> QED BY <1>2, <1>3, <2>1, <2>2
<1>7. \A g \in XHeads : XQueueOK(g)
    BY DEF XInv
<1>8. \A g \in XHeads : /\ QLast[g] = Xor(cookie[g], xlast[g])
                         /\ QLast'[g] = Xor(cookie'[g], xlast'[g])
    BY QState
<1>9. DOMAIN QLast = XHeads
    BY QState
<1> HIDE DEF c, d
<1>10. XQueueOK(h)'
    <2>1. ASSUME NEW j \in 0..Len(r) PROVE key'[At(h, r, j)] = cookie'[h]
        <3>1. CASE j = 0
            <4>1. key[h] = cookie[h]
                BY <1>1, <1>7 DEF XQueueOK, At
            <4> QED BY <1>3, <3>1, <4>1 DEF At
        <3>2. CASE j # 0
            <4>1. j \in DOMAIN r
                BY <1>4, <3>2
            <4> DEFINE k == IF j < i THEN j ELSE j + 1
            <4>2. k \in DOMAIN q /\ r[j] = q[k]
                BY <1>1, <4>1, RemovedPlaces
            <4> HIDE DEF k
            <4>3. k \in 0..Len(q) /\ k # 0
                BY <1>1, <4>2
            <4>4. key[q[k]] = cookie[h]
                BY <1>7, <4>3 DEF XQueueOK, At
            <4> QED BY <1>3, <3>2, <4>2, <4>4 DEF At
        <3> QED BY <3>1, <3>2
    <2>2. Spells(Dec', h, r, {})
        <3>1. Spells(Dec, h, q, {})
            BY <1>7 DEF XQueueOK
        <3> HIDE DEF q
        <3>2. Spells([Dec EXCEPT ![At(h, q, i - 1)] = Dec[q[i]]], h, r, {})
            BY <1>1, <1>6, <3>1, XCells, SpellsRemove DEF XCell, q
        <3> QED BY <1>3, <3>2 DEF c, d
    <2>3. QLast'[h] = At(h, r, Len(r))
        <3>1. CASE i = Len(q)
            <4>1. At(h, r, Len(r)) = c
                <5>1. Len(r) = i - 1
                    BY <1>4, <3>1
                <5>2. i - 1 # 0 => i - 1 \in 1..(Len(q) - 1) /\ i - 1 < i
                    BY <1>1
                <5>3. i - 1 # 0 => r[i - 1] = q[i - 1]
                    BY <5>2 DEF RemovedIn
                <5> QED BY <5>1, <5>3 DEF At, c
            <4> QED BY <1>2, <1>3, <1>9, <3>1, <4>1
        <3>2. CASE i # Len(q)
            <4>1. /\ i + 1 \in 1..Len(q) /\ Len(r) # 0 /\ Len(q) # 0
                  /\ Len(r) \in 1..(Len(q) - 1) /\ ~(Len(r) < i) /\ Len(r) + 1 = Len(q)
                BY <1>1, <1>4, <3>2
            <4>2. At(h, r, Len(r)) = At(h, q, Len(q))
                BY <4>1 DEF At, RemovedIn
            <4>3. d # {}
                BY <1>1, <1>2, <3>2, <4>1, XCells DEF XCell
            <4> QED BY <1>3, <1>7, <1>8, <4>2, <4>3 DEF XQueueOK
        <3> QED BY <3>1, <3>2
    <2> QED BY <1>5, <1>8, <2>1, <2>2, <2>3 DEF XQueueOK
<1>11. ASSUME NEW g \in XHeads, g # h PROVE XQueueOK(g)'
    <2>1. /\ Len(xlist[g]) \in Nat
          /\ \A j \in 0..Len(xlist[g]) : /\ At(g, xlist[g], j) \in XCell
                                         /\ At(g, xlist[g], j) # c
        BY <1>1, <1>11, XListsApart DEF XInv, c
    <2>2. \A j \in 0..Len(xlist[g]) : Dec'[At(g, xlist[g], j)] = Dec[At(g, xlist[g], j)]
        BY <1>6, <2>1
    <2>3. QLast'[g] = QLast[g]
        BY <1>3, <1>9, <1>11
    <2>4. xlist'[g] = xlist[g]
        BY <1>5, <1>11
    <2>5. \A j \in 0..Len(xlist[g]) : key'[At(g, xlist[g], j)] = cookie'[g]
        BY <1>3, <1>7 DEF XQueueOK
    <2>6. Spells(Dec', g, xlist[g], {})
        BY <1>7, <2>2 DEF XQueueOK, Spells
    <2>7. Xor(cookie'[g], xlast'[g]) = At(g, xlist[g], Len(xlist[g]))
        BY <1>7, <1>8, <2>3 DEF XQueueOK
    <2> QED BY <2>4, <2>5, <2>6, <2>7 DEF XQueueOK
<1>12. XLists'
    <2>1. ASSUME NEW f \in XHeads, NEW g \in XHeads, NEW k \in DOMAIN xlist'[f],
                 NEW j \in DOMAIN xlist'[g], xlist'[f][k] = xlist'[g][j]
          PROVE  f = g /\ k = j
        <3> DEFINE old(m) == IF m < i THEN m ELSE m + 1
        <3>1. ASSUME NEW m \in DOMAIN r PROVE old(m) \in DOMAIN q /\ r[m] = q[old(m)]
            BY <1>1, RemovedPlaces
        <3>3. CASE f = h /\ g = h
            <4>1. k \in DOMAIN r /\ j \in DOMAIN r /\ r[k] = r[j]
                BY <1>5, <2>1, <3>3
            <4>2. old(k) = old(j)
                BY <1>1, <3>1, <4>1 DEF Distinct
            <4>3. k \in Nat /\ j \in Nat /\ i \in Nat
                BY <1>1, <1>4, <4>1
            <4>4. k = j
                BY <4>2, <4>3
            <4> QED BY <3>3, <4>4
        <3>4. CASE f = h /\ g # h
            <4>1. k \in DOMAIN r /\ j \in DOMAIN xlist[g] /\ r[k] = xlist[g][j]
                BY <1>5, <2>1, <3>4
            <4> QED BY <3>1, <3>4, <4>1 DEF XInv, XLists
        <3>5. CASE f # h /\ g = h
            <4>1. k \in DOMAIN xlist[f] /\ j \in DOMAIN r /\ r[j] = xlist[f][k]
                BY <1>5, <2>1, <3>5
            <4> QED BY <3>1, <3>5, <4>1 DEF XInv, XLists
        <3>6. CASE f # h /\ g # h
            <4>1. xlist'[f] = xlist[f] /\ xlist'[g] = xlist[g]
                BY <1>5, <3>6
            <4> QED BY <2>1, <4>1 DEF XInv, XLists
        <3> QED BY <3>3, <3>4, <3>5, <3>6
    <2> QED BY <1>5, <2>1 DEF XLists
<1>13. XLoopOK'
    BY DEF XLoopOK
<1> QED BY <1>3, <1>6, <1>10, <1>11, <1>12, <1>13 DEF XInv

(***************************************************************************)
(* Initialising a queue again, with another cookie: its elements are on    *)
(* none then and keep the pointers and the keys they had.                  *)
(***************************************************************************)
XClear(h) ==
    /\ XFunctions'
    /\ \A g \in XHeads : g # h => cookie'[g] = cookie[g]
    /\ key'[h] = cookie'[h] /\ \A x \in XCell : x # h => key'[x] = key[x]
    /\ Dec' = [Dec EXCEPT ![h] = {}]
    /\ QLast' = [QLast EXCEPT ![h] = h]

(***************************************************************************)
(* XSIMPLEQ_INIT empties the queue and gives it a new cookie.              *)
(***************************************************************************)
LEMMA InitMacro ==
    ASSUME XInv, NEW h \in XHeads, X!XSIMPLEQ_INIT(h)
    PROVE  XClear(h)
<1>1. PICK new \in XCookies :
          /\ cookie' = [cookie EXCEPT ![h] = new]
          /\ xnext' = [xnext EXCEPT ![h] = Xor(new, {})]
          /\ xlast' = [xlast EXCEPT ![h] = Xor(new, h)]
          /\ key' = [key EXCEPT ![h] = new]
    BY DEF X!XSIMPLEQ_INIT, X!Nil, Xor
<1>2. /\ cookie = [g \in XHeads |-> cookie[g]] /\ key = [x \in XCell |-> key[x]]
      /\ xnext = [x \in XCell |-> xnext[x]] /\ xlast = [g \in XHeads |-> xlast[g]]
      /\ h \in XCell
    BY DEF XInv, XFunctions, XCell
<1>3. XFunctions'
    BY <1>1, <1>2 DEF XFunctions
<1>4. /\ cookie'[h] = new /\ key'[h] = new /\ xnext'[h] = Xor(new, {}) /\ xlast'[h] = Xor(new, h)
      /\ \A g \in XHeads : g # h => cookie'[g] = cookie[g] /\ xlast'[g] = xlast[g]
      /\ \A x \in XCell : x # h => key'[x] = key[x] /\ xnext'[x] = xnext[x]
    BY <1>1, <1>2
<1>5. Dec' = [Dec EXCEPT ![h] = {}]
    <2>1. Dec' = [x \in XCell |-> Xor(key'[x], xnext'[x])] /\ Dec = [x \in XCell |-> Dec[x]]
        BY DEF Dec
    <2>2. Dec'[h] = {}
        BY <1>2, <1>4, <2>1, XorTwice
    <2>3. \A x \in XCell : x # h => Dec'[x] = Dec[x]
        BY <1>4, <2>1 DEF Dec
    <2>4. Dec' = [x \in XCell |-> Dec'[x]]
        BY <2>1
    <2> HIDE DEF Dec
    <2> QED BY <1>2, <2>1, <2>2, <2>3, <2>4
<1>6. QLast' = [QLast EXCEPT ![h] = h]
    BY <1>4, QState, XorTwice
<1> QED BY <1>3, <1>4, <1>5, <1>6 DEF XClear

(***************************************************************************)
(* A queue initialised again keeps XInv, although the elements that were   *)
(* on it hold pointers with the old cookie.                                *)
(***************************************************************************)
LEMMA XClearKeeps ==
    ASSUME XInv, NEW h \in XHeads, xscan = NULL, XClear(h), xscan' = xscan,
           xlist' = [xlist EXCEPT ![h] = <<>>]
    PROVE  XInv'
<1>1. /\ xlist'[h] = <<>> /\ \A g \in XHeads : g # h => xlist'[g] = xlist[g]
      /\ xlist' \in [XHeads -> Seq(XElems)]
    BY DEF XInv, XLists
<1>2. /\ Dec \in [XCell -> XElems \cup {{}}] /\ h \in XCell
      /\ Dec' = [Dec EXCEPT ![h] = {}]
    BY DEF XInv, XClear, XCell
<1>3. /\ Dec' \in [XCell -> XElems \cup {{}}] /\ Dec'[h] = {}
      /\ \A x \in XCell : x # h => Dec'[x] = Dec[x]
    BY <1>2
<1>4. \A g \in XHeads : /\ QLast[g] = Xor(cookie[g], xlast[g])
                         /\ QLast'[g] = Xor(cookie'[g], xlast'[g])
    BY QState
<1>5. DOMAIN QLast = XHeads
    BY QState
<1>6. XQueueOK(h)'
    <2>1. Len(xlist'[h]) = 0 /\ \A j \in 0..0 : j = 0
        BY <1>1
    <2>2. QLast'[h] = h /\ key'[h] = cookie'[h]
        BY <1>5 DEF XClear
    <2> QED BY <1>3, <1>4, <2>1, <2>2 DEF XQueueOK, Spells, At
<1>7. ASSUME NEW g \in XHeads, g # h PROVE XQueueOK(g)'
    <2>1. /\ Len(xlist[g]) \in Nat /\ XQueueOK(g)
          /\ \A j \in 0..Len(xlist[g]) : At(g, xlist[g], j) \in XCell
          /\ \A j \in 0..Len(xlist[g]) : At(g, xlist[g], j) # h
        <3>1. At(h, xlist[h], 0) = h /\ 0 \in 0..Len(xlist[h])
            BY XListsApart DEF At, XInv
        <3> QED BY <1>7, <3>1, XListsApart DEF XInv
    <2>2. \A j \in 0..Len(xlist[g]) : /\ Dec'[At(g, xlist[g], j)] = Dec[At(g, xlist[g], j)]
                                     /\ key'[At(g, xlist[g], j)] = key[At(g, xlist[g], j)]
        BY <1>3, <2>1 DEF XClear
    <2>3. QLast'[g] = QLast[g] /\ cookie'[g] = cookie[g]
        BY <1>5, <1>7 DEF XClear
    <2>4. xlist'[g] = xlist[g]
        BY <1>1, <1>7
    <2>5. \A j \in 0..Len(xlist[g]) : key'[At(g, xlist[g], j)] = cookie'[g]
        BY <2>1, <2>2, <2>3 DEF XQueueOK
    <2>6. Spells(Dec', g, xlist[g], {})
        BY <2>1, <2>2 DEF XQueueOK, Spells
    <2>7. Xor(cookie'[g], xlast'[g]) = At(g, xlist[g], Len(xlist[g]))
        BY <1>4, <2>1, <2>3 DEF XQueueOK
    <2> QED BY <2>4, <2>5, <2>6, <2>7 DEF XQueueOK
<1>8. XLists'
    <2>1. \A g \in XHeads : xlist'[g] = xlist[g] \/ DOMAIN xlist'[g] = {}
        BY <1>1
    <2> QED BY <1>1, <2>1 DEF XInv, XLists
<1>9. XLoopOK' /\ XFunctions'
    BY DEF XLoopOK, XClear
<1> QED BY <1>3, <1>6, <1>7, <1>8, <1>9 DEF XInv

(***************************************************************************)
(* The same steps as Queues sees them.                                     *)
(***************************************************************************)
LEMMA QPut ==
    ASSUME XInv, NEW h \in XHeads, NEW e \in XElems, ~X!OnList(e),
           NEW i \in 0..Len(xlist[h]), XPut(h, i, e), NEW c, c = At(h, xlist[h], i)
    PROVE  /\ QNext' = [QNext EXCEPT ![e] = QNext[c], ![c] = e]
           /\ QLast' = IF QNext[c] = NULL THEN [QLast EXCEPT ![h] = e] ELSE QLast
           /\ i = Len(xlist[h]) => QNext[c] = NULL /\ QLast[h] = c
<1>1. c \in XCell /\ e \in XCell /\ c # e
    BY DecAt, XListsApart DEF XInv, XCell
<1>2. /\ Dec' = [Dec EXCEPT ![e] = Dec[c], ![c] = e]
      /\ QLast' = IF Dec[c] = {} THEN [QLast EXCEPT ![h] = e] ELSE QLast
    BY DEF XPut
<1>3. Dec \in [XCell -> XElems \cup {{}}]
    BY DEF XInv
<1>4. /\ Dec'[e] = Dec[c] /\ Dec'[c] = e
      /\ \A x \in XCell : x # e /\ x # c => Dec'[x] = Dec[x]
    BY <1>1, <1>2, <1>3
<1>5. QNext = [x \in XCell |-> Ptr(Dec[x])] /\ QNext' = [x \in XCell |-> Ptr(Dec'[x])]
    BY QState
<1>6. Ptr(e) = e
    BY <1>1, XCells DEF Ptr
<1>7. /\ QNext'[e] = QNext[c] /\ QNext'[c] = e
      /\ \A x \in XCell : x # e /\ x # c => QNext'[x] = QNext[x]
    BY <1>1, <1>4, <1>5, <1>6
<1>8. QNext = [x \in XCell |-> QNext[x]] /\ QNext' = [x \in XCell |-> QNext'[x]]
    BY <1>5
<1>9. QNext' = [QNext EXCEPT ![e] = QNext[c], ![c] = e]
    BY <1>1, <1>7, <1>8
<1>10. QNext[c] = NULL <=> Dec[c] = {}
    BY <1>1, <1>3, <1>5, XCells DEF Ptr, XCell
<1>11. i = Len(xlist[h]) => Dec[c] = {} /\ QLast[h] = c
    BY DecAt, QState DEF XInv, XQueueOK
<1> QED BY <1>2, <1>9, <1>10, <1>11

(***************************************************************************)
(* A removal is one of Queues: CutNext and CutLast.                        *)
(***************************************************************************)
LEMMA QTake ==
    ASSUME XInv, NEW h \in XHeads, NEW i \in 1..Len(xlist[h]), XTake(h, i),
           NEW c, c = At(h, xlist[h], i - 1), NEW e, e = xlist[h][i]
    PROVE  /\ QNext[c] = e
           /\ QNext' = [QNext EXCEPT ![c] = QNext[e]]
           /\ QLast' = IF QNext[e] = NULL THEN [QLast EXCEPT ![h] = c] ELSE QLast
<1>1. /\ i - 1 \in 0..Len(xlist[h]) /\ i \in 0..Len(xlist[h]) /\ At(h, xlist[h], i) = e
      /\ e \in XElems /\ i - 1 # Len(xlist[h]) /\ (i - 1) + 1 = i
    BY XListsApart DEF XInv, At
<1>2. c \in XCell /\ e \in XCell /\ Dec[c] = e
    BY <1>1, DecAt
<1>3. /\ Dec' = [Dec EXCEPT ![c] = Dec[e]]
      /\ QLast' = IF Dec[e] = {} THEN [QLast EXCEPT ![h] = c] ELSE QLast
    BY DEF XTake
<1>4. Dec \in [XCell -> XElems \cup {{}}]
    BY DEF XInv
<1>5. Dec'[c] = Dec[e] /\ \A x \in XCell : x # c => Dec'[x] = Dec[x]
    BY <1>2, <1>3, <1>4
<1>6. QNext = [x \in XCell |-> Ptr(Dec[x])] /\ QNext' = [x \in XCell |-> Ptr(Dec'[x])]
    BY QState
<1>7. QNext'[c] = QNext[e] /\ \A x \in XCell : x # c => QNext'[x] = QNext[x]
    BY <1>2, <1>5, <1>6
<1>8. QNext = [x \in XCell |-> QNext[x]] /\ QNext' = [x \in XCell |-> QNext'[x]]
    BY <1>6
<1>9. QNext' = [QNext EXCEPT ![c] = QNext[e]]
    BY <1>2, <1>7, <1>8
<1>10. QNext[e] = NULL <=> Dec[e] = {}
    BY <1>2, <1>4, <1>6, XCells DEF Ptr, XCell
<1>11. QNext[c] = e
    BY <1>2, <1>6, XCells DEF Ptr
<1> QED BY <1>3, <1>9, <1>10, <1>11

(***************************************************************************)
(* An initialisation is one of Queues.                                     *)
(***************************************************************************)
LEMMA QClear ==
    ASSUME XInv, NEW h \in XHeads, XClear(h)
    PROVE  QNext' = [QNext EXCEPT ![h] = NULL] /\ QLast' = [QLast EXCEPT ![h] = h]
<1>1. Dec' = [Dec EXCEPT ![h] = {}] /\ Dec = [x \in XCell |-> Dec[x]] /\ h \in XCell
    BY DEF XClear, Dec, XCell
<1>2. Dec'[h] = {} /\ \A x \in XCell : x # h => Dec'[x] = Dec[x]
    BY <1>1
<1>3. QNext = [x \in XCell |-> Ptr(Dec[x])] /\ QNext' = [x \in XCell |-> Ptr(Dec'[x])]
    BY QState
<1>4. QNext' = [QNext EXCEPT ![h] = NULL]
    BY <1>1, <1>2, <1>3 DEF Ptr
<1> QED BY <1>4 DEF XClear

(***************************************************************************)
(* No loop here is no loop there.                                          *)
(***************************************************************************)
LEMMA QScanKept ==
    ASSUME xscan = NULL, xscan' = xscan PROVE QScan = NULL /\ QScan' = NULL
BY DEF QScan

(***************************************************************************)
(* Initialise is a step of Queues and keeps XInv.                          *)
(***************************************************************************)
LEMMA XInitialise ==
    ASSUME XInv, NEW h \in XHeads, X!Initialise(h)
    PROVE  XInv' /\ X!Q!Initialise(h)
<1>1. /\ xscan = NULL /\ X!XSIMPLEQ_INIT(h) /\ xlist' = [xlist EXCEPT ![h] = <<>>]
      /\ xscan' = xscan
    BY DEF X!Initialise
<1>2. XClear(h)
    BY <1>1, InitMacro
<1>3. XInv'
    BY <1>1, <1>2, XClearKeeps
<1>4. QNext' = [QNext EXCEPT ![h] = NULL] /\ QLast' = [QLast EXCEPT ![h] = h]
    BY <1>2, QClear
<1>5. X!Q!SIMPLEQ_INIT(h)
    BY <1>4 DEF X!Q!SIMPLEQ_INIT, QNext, QLast
<1>6. X!Q!Initialise(h)
    BY <1>1, <1>5, QScanKept DEF X!Q!Initialise, QScan
<1> QED BY <1>3, <1>6

(***************************************************************************)
(* Insert is a step of Queues and keeps XInv; no loop is running, since    *)
(* the element at which one stands is on a queue.                          *)
(***************************************************************************)
LEMMA XInsert ==
    ASSUME XInv, NEW h \in XHeads, NEW e \in XElems, X!Insert(h, e)
    PROVE  /\ XInv'
           /\ \/ X!Q!InsertHead(h, e) \/ X!Q!InsertTail(h, e)
              \/ \E i \in DOMAIN xlist[h] : X!Q!InsertAfter(h, i, e)
<1>1. /\ e \in X!Unlisted /\ h \in X!Target /\ cookie' = cookie /\ xscan' = xscan
    BY DEF X!Insert
<1>2. ~X!OnList(e)
    BY <1>1 DEF X!Unlisted
<1>3. xscan = NULL
    <2> SUFFICES ASSUME xscan # NULL PROVE FALSE
        OBVIOUS
    <2>1. e = xscan.var
        BY <1>1 DEF X!Unlisted
    <2>2. PICK i \in DOMAIN xlist[xscan.h] : xscan.h \in XHeads /\ xscan.var = xlist[xscan.h][i]
        BY DEF XInv, XLoopOK
    <2> QED BY <1>2, <2>1, <2>2 DEF X!OnList, X!Range
<1>4. /\ xlist[h] \in Seq(XElems) /\ Len(xlist[h]) \in Nat /\ DOMAIN xlist[h] = 1..Len(xlist[h])
      /\ 0 \in 0..Len(xlist[h]) /\ Len(xlist[h]) \in 0..Len(xlist[h]) /\ 0 + 1 = 1
      /\ xlist \in [XHeads -> Seq(XElems)]
    BY XListsApart DEF XInv, XLists
<1>5. QScan = NULL /\ QScan' = NULL
    BY <1>1, <1>3, QScanKept
<1>6. e \in X!Q!Unlisted /\ h \in X!Q!Target
    <2>1. ~X!Q!OnList(e)
        BY <1>2 DEF X!Q!OnList, X!OnList, X!Q!Range, X!Range
    <2> QED BY <1>1, <1>3, <2>1 DEF X!Q!Unlisted, X!Q!Movable, X!Q!Target, X!Target
<1>7. ASSUME X!XSIMPLEQ_INSERT_HEAD(h, e), xlist' = [xlist EXCEPT ![h] = <<e>> \o @]
      PROVE  XInv' /\ X!Q!InsertHead(h, e)
    <2>1. XPut(h, 0, e)
        BY <1>1, <1>2, <1>7, InsertMacros
    <2>2. xlist' = [xlist EXCEPT ![h] = InsertAt(xlist[h], 1, e)]
        BY <1>4, <1>7, XSequences
    <2>3. InsertedIn(XElems, xlist[h], 0, e, InsertAt(xlist[h], 1, e))
        BY <1>4, XSequences
    <2>4. XInv'
        <3> DEFINE r == InsertAt(xlist[h], 1, e)
        <3> HIDE DEF r
        <3>1. InsertedIn(XElems, xlist[h], 0, e, r) /\ xlist' = [xlist EXCEPT ![h] = r]
            BY <2>2, <2>3 DEF r
        <3> QED BY <1>1, <1>2, <1>3, <1>4, <2>1, <3>1, XPutKeeps
    <2>5. At(h, xlist[h], 0) = h
        BY DEF At
    <2>6. /\ QNext' = [QNext EXCEPT ![e] = QNext[h], ![h] = e]
          /\ QLast' = IF QNext[h] = NULL THEN [QLast EXCEPT ![h] = e] ELSE QLast
        BY <1>2, <1>4, <2>1, <2>5, QPut
    <2>7. X!Q!SIMPLEQ_INSERT_HEAD(h, e)
        BY <2>6 DEF X!Q!SIMPLEQ_INSERT_HEAD, X!Q!LinkNext, X!Q!LinkLast, QNext, QLast
    <2>8. X!Q!Put(h, 1, e)
        BY <1>4, <2>2, XSequences DEF X!Q!Put
    <2> QED BY <1>5, <1>6, <2>4, <2>7, <2>8 DEF X!Q!InsertHead, QScan
<1>8. ASSUME X!XSIMPLEQ_INSERT_TAIL(h, e), xlist' = [xlist EXCEPT ![h] = Append(@, e)]
      PROVE  XInv' /\ X!Q!InsertTail(h, e)
    <2> DEFINE n == Len(xlist[h])
               c == At(h, xlist[h], n)
    <2>1. XPut(h, n, e)
        BY <1>1, <1>2, <1>8, InsertMacros
    <2>2. InsertedIn(XElems, xlist[h], n, e, Append(xlist[h], e))
        BY <1>4, XSequences
    <2>3. XInv'
        <3> DEFINE r == Append(xlist[h], e)
        <3> HIDE DEF r
        <3>1. InsertedIn(XElems, xlist[h], n, e, r) /\ xlist' = [xlist EXCEPT ![h] = r]
            BY <1>8, <2>2 DEF r
        <3> QED BY <1>1, <1>2, <1>3, <1>4, <2>1, <3>1, XPutKeeps
    <2>4. /\ QNext' = [QNext EXCEPT ![e] = QNext[c], ![c] = e]
          /\ QLast' = IF QNext[c] = NULL THEN [QLast EXCEPT ![h] = e] ELSE QLast
          /\ QNext[c] = NULL /\ QLast[h] = c
        BY <1>2, <1>4, <2>1, QPut
    <2> HIDE DEF c
    <2>5. /\ QNext' = [QNext EXCEPT ![e] = NULL, ![QLast[h]] = e]
          /\ QLast' = [QLast EXCEPT ![h] = e]
        BY <2>4
    <2>6. X!Q!SIMPLEQ_INSERT_TAIL(h, e)
        BY <2>5 DEF X!Q!SIMPLEQ_INSERT_TAIL, QNext, QLast
    <2> QED BY <1>5, <1>6, <1>8, <2>3, <2>6 DEF X!Q!InsertTail, QScan
<1>9. ASSUME NEW i \in DOMAIN xlist[h], X!XSIMPLEQ_INSERT_AFTER(h, xlist[h][i], e),
             xlist' = [xlist EXCEPT ![h] = X!InsertAt(@, i + 1, e)]
      PROVE  XInv' /\ X!Q!InsertAfter(h, i, e)
    <2> DEFINE c == xlist[h][i]
    <2>1. XPut(h, i, e)
        BY <1>1, <1>2, <1>9, InsertMacros
    <2>2. i \in 0..Len(xlist[h]) /\ c = At(h, xlist[h], i)
        BY <1>4 DEF At
    <2>3. InsertedIn(XElems, xlist[h], i, e, InsertAt(xlist[h], i + 1, e))
        BY <1>4, <2>2, XSequences
    <2>4. xlist' = [xlist EXCEPT ![h] = InsertAt(xlist[h], i + 1, e)]
        BY <1>4, <1>9, XSequences
    <2>5. XInv'
        <3> DEFINE r == InsertAt(xlist[h], i + 1, e)
        <3> HIDE DEF r
        <3>1. InsertedIn(XElems, xlist[h], i, e, r) /\ xlist' = [xlist EXCEPT ![h] = r]
            BY <2>3, <2>4 DEF r
        <3> QED BY <1>1, <1>2, <1>3, <2>1, <2>2, <3>1, XPutKeeps
    <2>6. /\ QNext' = [QNext EXCEPT ![e] = QNext[c], ![c] = e]
          /\ QLast' = IF QNext[c] = NULL THEN [QLast EXCEPT ![h] = e] ELSE QLast
        BY <1>2, <2>1, <2>2, QPut
    <2>7. X!Q!SIMPLEQ_INSERT_AFTER(h, c, e)
        BY <2>6 DEF X!Q!SIMPLEQ_INSERT_AFTER, X!Q!LinkNext, X!Q!LinkLast, QNext, QLast
    <2>8. X!Q!Put(h, i + 1, e)
        BY <1>4, <2>4, XSequences DEF X!Q!Put
    <2> QED BY <1>5, <1>6, <2>5, <2>7, <2>8 DEF X!Q!InsertAfter, QScan
<1> QED BY <1>7, <1>8, <1>9 DEF X!Insert

(***************************************************************************)
(* RemoveOne is a step of Queues and keeps XInv.                           *)
(***************************************************************************)
LEMMA XRemoveOne ==
    ASSUME XInv, NEW h \in XHeads, X!RemoveOne(h)
    PROVE  XInv' /\ (X!Q!RemoveHead(h) \/ \E i \in DOMAIN xlist[h] : X!Q!RemoveAfter(h, i))
<1>1. xscan = NULL /\ cookie' = cookie /\ xscan' = xscan
    BY DEF X!RemoveOne
<1>2. /\ xlist[h] \in Seq(XElems) /\ Len(xlist[h]) \in Nat /\ DOMAIN xlist[h] = 1..Len(xlist[h])
      /\ xlist \in [XHeads -> Seq(XElems)]
    BY XListsApart DEF XInv, XLists
<1>3. QScan = NULL /\ QScan' = NULL
    BY <1>1, QScanKept
<1>4. ASSUME xlist[h] # <<>>, X!XSIMPLEQ_REMOVE_HEAD(h), xlist' = [xlist EXCEPT ![h] = Tail(@)]
      PROVE  XInv' /\ X!Q!RemoveHead(h)
    <2> DEFINE e == xlist[h][1]
    <2>1. 1 \in 1..Len(xlist[h]) /\ At(h, xlist[h], 1 - 1) = h
        BY <1>2, <1>4 DEF At
    <2>2. XTake(h, 1)
        BY <1>1, <1>4, RemoveMacros
    <2>3. xlist' = [xlist EXCEPT ![h] = RemoveAt(xlist[h], 1)]
        BY <1>2, <1>4, XSequences
    <2>4. RemovedIn(XElems, xlist[h], 1, RemoveAt(xlist[h], 1))
        BY <1>2, <2>1, XSequences
    <2>5. XInv'
        <3> DEFINE r == RemoveAt(xlist[h], 1)
        <3> HIDE DEF r
        <3>1. RemovedIn(XElems, xlist[h], 1, r) /\ xlist' = [xlist EXCEPT ![h] = r]
            BY <2>3, <2>4 DEF r
        <3> QED BY <1>1, <2>1, <2>2, <3>1, XTakeKeeps
    <2>6. /\ QNext[h] = e
          /\ QNext' = [QNext EXCEPT ![h] = QNext[e]]
          /\ QLast' = IF QNext[e] = NULL THEN [QLast EXCEPT ![h] = h] ELSE QLast
        BY <2>1, <2>2, QTake
    <2> HIDE DEF e
    <2>7. /\ QNext' = [QNext EXCEPT ![h] = QNext[QNext[h]]]
          /\ QLast' = IF QNext[QNext[h]] = NULL THEN [QLast EXCEPT ![h] = h] ELSE QLast
        BY <2>6
    <2>8. X!Q!SIMPLEQ_REMOVE_HEAD(h)
        BY <2>7 DEF X!Q!SIMPLEQ_REMOVE_HEAD, X!Q!CutNext, X!Q!CutLast, QNext, QLast
    <2>9. X!Q!Take(h, 1)
        BY <1>2, <2>3, XSequences DEF X!Q!Take
    <2> QED BY <1>3, <1>4, <2>5, <2>8, <2>9 DEF X!Q!RemoveHead, QScan
<1>5. ASSUME NEW i \in 1..(Len(xlist[h]) - 1), X!XSIMPLEQ_REMOVE_AFTER(h, xlist[h][i]),
             xlist' = [xlist EXCEPT ![h] = X!RemoveAt(@, i + 1)]
      PROVE  XInv' /\ i \in DOMAIN xlist[h] /\ X!Q!RemoveAfter(h, i)
    <2> DEFINE c == xlist[h][i]
               e == xlist[h][i + 1]
    <2>1. /\ i \in 1..Len(xlist[h]) /\ i < Len(xlist[h]) /\ i + 1 \in 1..Len(xlist[h])
          /\ (i + 1) - 1 = i /\ c = At(h, xlist[h], i)
        BY <1>2 DEF At
    <2>2. XTake(h, i + 1)
        BY <1>1, <1>5, RemoveMacros
    <2>3. xlist' = [xlist EXCEPT ![h] = RemoveAt(xlist[h], i + 1)]
        BY <1>2, <1>5, XSequences
    <2>4. RemovedIn(XElems, xlist[h], i + 1, RemoveAt(xlist[h], i + 1))
        BY <1>2, <2>1, XSequences
    <2>5. PICK k \in 1..Len(xlist[h]) : k = i + 1 /\ k - 1 = i
        BY <2>1
    <2>6. XInv'
        <3> DEFINE r == RemoveAt(xlist[h], k)
        <3> HIDE DEF r
        <3>1. RemovedIn(XElems, xlist[h], k, r) /\ xlist' = [xlist EXCEPT ![h] = r]
            BY <2>3, <2>4, <2>5 DEF r
        <3>2. XTake(h, k)
            BY <2>2, <2>5
        <3> QED BY <1>1, <3>1, <3>2, XTakeKeeps
    <2>7. /\ QNext[c] = e
          /\ QNext' = [QNext EXCEPT ![c] = QNext[e]]
          /\ QLast' = IF QNext[e] = NULL THEN [QLast EXCEPT ![h] = c] ELSE QLast
        <3>1. XTake(h, k) /\ c = At(h, xlist[h], k - 1) /\ e = xlist[h][k]
            BY <2>1, <2>2, <2>5
        <3> HIDE DEF c, e
        <3> QED BY <3>1, QTake
    <2> HIDE DEF e
    <2>8. /\ QNext' = [QNext EXCEPT ![c] = QNext[QNext[c]]]
          /\ QLast' = IF QNext[QNext[c]] = NULL THEN [QLast EXCEPT ![h] = c] ELSE QLast
        BY <2>7
    <2>9. X!Q!SIMPLEQ_REMOVE_AFTER(h, c)
        BY <2>8 DEF X!Q!SIMPLEQ_REMOVE_AFTER, X!Q!CutNext, X!Q!CutLast, QNext, QLast
    <2>10. X!Q!Take(h, i + 1)
        BY <1>2, <2>3, XSequences DEF X!Q!Take
    <2> QED BY <1>2, <1>3, <2>1, <2>6, <2>9, <2>10 DEF X!Q!RemoveAfter, QScan
<1> QED BY <1>4, <1>5 DEF X!RemoveOne

(***************************************************************************)
(* The begin of a loop is one of Queues and keeps XInv.                    *)
(***************************************************************************)
LEMMA XForeachSafe ==
    ASSUME XInv, NEW h \in XHeads, X!XSIMPLEQ_FOREACH_SAFE(h)
    PROVE  XInv' /\ X!Q!FOREACH_SAFE(h)
<1> DEFINE first == Xor(cookie[h], xnext[h])
           q == xlist[h]
<1>1. /\ xscan = NULL /\ first # {}
      /\ xscan' = [h |-> h, var |-> first, tvar |-> Xor(cookie[h], xnext[first]),
                   start |-> q, n |-> 0]
      /\ UNCHANGED <<xnext, xlast, cookie, xlist, key>>
    BY XorOf DEF X!XSIMPLEQ_FOREACH_SAFE, X!XSIMPLEQ_FIRST, X!XSIMPLEQ_NEXT, X!Nil
<1>2. q \in Seq(XElems) /\ Len(q) \in Nat /\ 0 \in 0..Len(q) /\ DOMAIN q = 1..Len(q)
    BY XListsApart DEF XInv
<1>3. first = Dec[h] /\ Dec[h] = (IF 0 = Len(q) THEN {} ELSE q[0 + 1]) /\ h \in XCell
    <2>1. At(h, q, 0) = h
        BY DEF At
    <2> QED BY <1>2, <2>1, DecAt
<1> HIDE DEF first
<1>4. Len(q) # 0 /\ first = q[1] /\ 1 \in 1..Len(q) /\ 1 \in 0..Len(q)
    BY <1>1, <1>2, <1>3
<1>5. first \in XCell /\ first \in XElems /\ Xor(cookie[h], xnext[first]) = Dec[first]
    <2>1. At(h, q, 1) = first
        BY <1>4 DEF At
    <2> QED BY <1>2, <1>4, <2>1, DecAt
<1>6. Dec \in [XCell -> XElems \cup {{}}]
    BY DEF XInv
<1> DEFINE second == Dec[first]
<1>7. second \in XElems \cup {{}}
    BY <1>5, <1>6
<1> HIDE DEF second
<1>8. xscan' = [h |-> h, var |-> first, tvar |-> second, start |-> q, n |-> 0]
    BY <1>1, <1>5 DEF second
<1>9. xscan' \in [h : XHeads, var : XElems, tvar : XElems \cup {{}}, start : Seq(XElems), n : Nat]
    BY <1>2, <1>5, <1>7, <1>8
<1>10. /\ Dec' = Dec /\ XFunctions' = XFunctions /\ XLists' = XLists
       /\ \A g : XQueueOK(g)' = XQueueOK(g)
    BY <1>1 DEF Dec, XFunctions, XLists, XQueueOK
<1>11. XInv'
    <2>1. XLoopOK'
        BY <1>1, <1>2, <1>4, <1>8, <1>9, <1>10 DEF XLoopOK, second
    <2> QED BY <1>10, <2>1 DEF XInv
<1>12. QNext[h] = first /\ QNext[first] = Ptr(second) /\ first # NULL
    BY <1>1, <1>3, <1>5, QState, XCells DEF Ptr, second
<1>13. QScan' = [h |-> h, var |-> first, tvar |-> Ptr(second), start |-> q, n |-> 0]
    <2>1. xscan' # NULL
        BY <1>9, XLoops
    <2>2. QScan' = [xscan' EXCEPT !.tvar = X!Pointer(@)]
        BY <2>1 DEF QScan, X!Pointer, X!Nil
    <2> QED BY <1>8, <2>2 DEF Ptr, X!Pointer, X!Nil
<1>14. QScan = NULL
    BY <1>1 DEF QScan
<1>15. QNext' = QNext /\ QLast' = QLast
    BY <1>1, <1>10, QState
<1>16. X!Q!FOREACH_SAFE(h)
    <2>1. QScan' = [h |-> h, var |-> QNext[h], tvar |-> QNext[QNext[h]], start |-> xlist[h], n |-> 0]
        BY <1>12, <1>13
    <2>2. QNext[h] # NULL
        BY <1>12
    <2> QED BY <1>1, <1>14, <1>15, <2>1, <2>2
            DEF X!Q!FOREACH_SAFE, X!Q!links, QNext, QLast, QScan
<1> QED BY <1>11, <1>16

(***************************************************************************)
(* A pass of a loop is one of Queues and keeps XInv: tvar is decoded with  *)
(* the cookie of the head of the loop, which is that of the cell.          *)
(***************************************************************************)
LEMMA XNextPass ==
    ASSUME XInv, X!NextPass
    PROVE  XInv' /\ X!Q!NextPass
<1> DEFINE h == xscan.h
           t == xscan.tvar
           q == xlist[h]
<1>1. /\ xscan # NULL
      /\ xscan' = IF t = {} THEN NULL
                  ELSE [xscan EXCEPT !.var = t, !.n = @ + 1,
                                     !.tvar = Xor(cookie[h], xnext[t])]
      /\ UNCHANGED <<xnext, xlast, cookie, xlist, key>>
    BY XorOf DEF X!NextPass, X!XSIMPLEQ_NEXT, X!Nil
<1>2. /\ xscan \in [h : XHeads, var : XElems, tvar : XElems \cup {{}},
                     start : Seq(XElems), n : Nat]
      /\ \E i \in DOMAIN q : xscan.var = q[i]
      /\ t = Dec[xscan.var]
    BY <1>1 DEF XInv, XLoopOK
<1>3. /\ Dec' = Dec /\ XFunctions' = XFunctions /\ XLists' = XLists
      /\ \A g : XQueueOK(g)' = XQueueOK(g)
    BY <1>1 DEF Dec, XFunctions, XLists, XQueueOK
<1>4. h \in XHeads /\ q \in Seq(XElems) /\ Len(q) \in Nat /\ DOMAIN q = 1..Len(q)
    BY <1>2, XListsApart DEF XInv
<1>5. QScan = [xscan EXCEPT !.tvar = Ptr(t)]
    BY <1>1, <1>2 DEF QScan, X!Pointer, X!Nil, Ptr
<1>6. /\ QScan \in [h : XHeads, var : XElems, tvar : XElems \cup {{}, NULL},
                     start : Seq(XElems), n : Nat]
      /\ QScan.tvar = Ptr(t)
    BY <1>2, <1>5 DEF Ptr
<1>7. QScan # NULL
    BY <1>6, XLoops
<1>8. QNext' = QNext /\ QLast' = QLast
    BY <1>1, <1>3, QState
<1>9. CASE t = {}
    <2>1. xscan' = NULL /\ QScan' = NULL /\ QScan.tvar = NULL
        BY <1>1, <1>6, <1>9 DEF QScan, Ptr
    <2>2. XInv'
        BY <1>3, <2>1 DEF XInv, XLoopOK
    <2>3. QScan' = IF QScan.tvar = NULL THEN NULL
                   ELSE [QScan EXCEPT !.var = QScan.tvar, !.tvar = QNext[QScan.tvar], !.n = @ + 1]
        BY <2>1
    <2>4. X!Q!NextPass
        BY <1>1, <1>7, <1>8, <2>3 DEF X!Q!NextPass, X!Q!links, QNext, QLast, QScan
    <2> QED BY <2>2, <2>4
<1>10. CASE t # {}
    <2>1. PICK i \in DOMAIN q : xscan.var = q[i]
        BY <1>2
    <2>2. i \in 0..Len(q) /\ At(h, q, i) = q[i]
        BY <1>4, <2>1 DEF At
    <2>3. Dec[q[i]] = IF i = Len(q) THEN {} ELSE q[i + 1]
        BY <1>4, <2>2, DecAt
    <2>4. i # Len(q) /\ t = q[i + 1]
        BY <1>2, <1>10, <2>1, <2>3
    <2>5. i + 1 \in DOMAIN q /\ i + 1 \in 0..Len(q) /\ i + 1 # 0
        BY <1>4, <2>1, <2>4
    <2>6. At(h, q, i + 1) = t
        BY <2>4, <2>5 DEF At
    <2>7. t \in XCell /\ t \in XElems /\ Xor(cookie[h], xnext[t]) = Dec[t]
        BY <1>4, <2>4, <2>5, <2>6, DecAt
    <2>8. Dec \in [XCell -> XElems \cup {{}}]
        BY DEF XInv
    <2> DEFINE v == Dec[t]
    <2>9. v \in XElems \cup {{}}
        BY <2>7, <2>8
    <2> HIDE DEF v
    <2>10. xscan' = [xscan EXCEPT !.var = t, !.n = @ + 1, !.tvar = v]
        BY <1>1, <1>10, <2>7 DEF v
    <2>11. /\ xscan' \in [h : XHeads, var : XElems, tvar : XElems \cup {{}},
                           start : Seq(XElems), n : Nat]
           /\ xscan'.h = h /\ xscan'.var = t /\ xscan'.tvar = v
        <3>1. xscan.n \in Nat /\ xscan.n + 1 \in Nat /\ xscan.start \in Seq(XElems)
            BY <1>2
        <3>2. xscan' = [h |-> h, var |-> t, tvar |-> v, start |-> xscan.start, n |-> xscan.n + 1]
            BY <1>2, <2>10
        <3> HIDE DEF h, t
        <3> QED BY <1>4, <2>7, <2>9, <3>1, <3>2
    <2>12. XLoopOK'
        <3>1. xlist' = xlist
            BY <1>1
        <3>2. \E j \in DOMAIN xlist[h] : t = xlist[h][j]
            BY <2>4, <2>5
        <3>3. v = Dec'[t]
            BY <1>3 DEF v
        <3> HIDE DEF h, t, q
        <3> QED BY <2>11, <3>1, <3>2, <3>3 DEF XLoopOK
    <2>13. XInv'
        BY <1>3, <2>12 DEF XInv
    <2>14. QScan' = [xscan' EXCEPT !.tvar = Ptr(v)]
        <3>1. xscan' # NULL
            BY <2>11, XLoops
        <3> QED BY <2>11, <3>1 DEF QScan, X!Pointer, X!Nil, Ptr
    <2>15. t # NULL /\ Ptr(t) = t /\ QNext[t] = Ptr(v)
        BY <1>10, <2>7, QState, XCells DEF Ptr, v
    <2>16. QScan' = [QScan EXCEPT !.var = t, !.tvar = Ptr(v), !.n = @ + 1]
        BY <1>2, <1>5, <2>10, <2>14
    <2>17. QScan' = IF QScan.tvar = NULL THEN NULL
                    ELSE [QScan EXCEPT !.var = QScan.tvar, !.tvar = QNext[QScan.tvar], !.n = @ + 1]
        <3>1. QScan.tvar = t
            BY <1>6, <2>15
        <3> HIDE DEF t
        <3> QED BY <2>15, <2>16, <3>1
    <2>18. X!Q!NextPass
        BY <1>1, <1>7, <1>8, <2>17 DEF X!Q!NextPass, X!Q!links, QNext, QLast, QScan
    <2> QED BY <2>13, <2>18
<1> QED BY <1>9, <1>10

(***************************************************************************)
(* The first state.                                                        *)
(***************************************************************************)
LEMMA XInit ==
    ASSUME X!Init
    PROVE  XInv /\ X!Q!Init
<1>1. /\ cookie \in [XHeads -> XCookies]
      /\ xnext = [c \in XCell |-> IF c \in XHeads THEN Xor(cookie[c], {}) ELSE {}]
      /\ xlast = [h \in XHeads |-> Xor(cookie[h], h)]
      /\ xlist = [h \in XHeads |-> <<>>]
      /\ xscan = NULL
      /\ key = [c \in XCell |-> IF c \in XHeads THEN cookie[c] ELSE {}]
    BY XCells DEF X!Init, X!XSIMPLEQ_XOR, Xor, X!Nil
<1>2. XFunctions
    BY <1>1 DEF XFunctions
<1>3. \A c \in XCell : Dec[c] = {}
    <2>1. ASSUME NEW c \in XCell PROVE Dec[c] = {}
        <3>1. Dec[c] = Xor(key[c], xnext[c])
            BY DEF Dec
        <3>2. CASE c \in XHeads
            BY <1>1, <3>1, <3>2, XorTwice
        <3>3. CASE c \notin XHeads
            BY <1>1, <3>1, <3>3 DEF Xor
        <3> QED BY <3>2, <3>3
    <2> QED BY <2>1
<1>4. Dec \in [XCell -> XElems \cup {{}}]
    <2>1. Dec = [c \in XCell |-> Dec[c]]
        BY DEF Dec
    <2> HIDE DEF Dec
    <2> QED BY <1>3, <2>1
<1>5. \A h \in XHeads : Xor(cookie[h], xlast[h]) = h
    BY <1>1, XorTwice
<1>6. ASSUME NEW h \in XHeads PROVE XQueueOK(h)
    <2>1. xlist[h] = <<>> /\ Len(xlist[h]) = 0 /\ (\A j \in 0..0 : j = 0) /\ h \in XCell
        BY <1>1 DEF XCell
    <2>2. key[h] = cookie[h]
        BY <1>1, <2>1
    <2> QED BY <1>3, <1>5, <2>1, <2>2 DEF XQueueOK, Spells, At
<1>7. XLists /\ XLoopOK
    BY <1>1 DEF XLists, XLoopOK
<1>8. QNext = [c \in XCell |-> NULL] /\ QLast = [h \in XHeads |-> h]
    BY <1>3, <1>5, QState DEF Ptr
<1>9. X!Q!Init
    <2>1. QScan = NULL
        BY <1>1 DEF QScan
    <2>2. X!Q!Cell = XCell
        BY DEF X!Q!Cell, XCell
    <2> QED BY <1>1, <1>8, <2>1, <2>2 DEF X!Q!Init, X!Q!Kind, QNext, QLast, QScan
<1> QED BY <1>2, <1>4, <1>6, <1>7, <1>9 DEF XInv

(***************************************************************************)
(* Every step keeps XInv and is a step of Queues, or leaves its state.     *)
(***************************************************************************)
LEMMA XStep ==
    ASSUME XInv, [X!Next]_(X!vars)
    PROVE  XInv' /\ [X!Q!Next]_(X!Q!vars)
<1>1. ASSUME NEW h \in XHeads, X!Initialise(h) PROVE XInv' /\ X!Q!Next
    BY <1>1, XInitialise DEF X!Q!Next
<1>2. ASSUME NEW h \in XHeads, X!RemoveOne(h) PROVE XInv' /\ X!Q!Next
    BY <1>2, XRemoveOne DEF X!Q!Next
<1>3. ASSUME NEW h \in XHeads, X!XSIMPLEQ_FOREACH_SAFE(h) PROVE XInv' /\ X!Q!Next
    BY <1>3, XForeachSafe DEF X!Q!Next
<1>4. ASSUME NEW h \in XHeads, NEW e \in XElems, X!Insert(h, e) PROVE XInv' /\ X!Q!Next
    BY <1>4, XInsert DEF X!Q!Next
<1>5. ASSUME X!NextPass PROVE XInv' /\ X!Q!Next
    BY <1>5, XNextPass DEF X!Q!Next
<1>6. ASSUME UNCHANGED X!vars PROVE XInv' /\ UNCHANGED X!Q!vars
    <2>1. UNCHANGED <<xnext, xlast, cookie, xlist, xscan, key>>
        BY <1>6 DEF X!vars
    <2>2. XInv'
        <3>1. /\ Dec' = Dec /\ XFunctions' = XFunctions /\ XLists' = XLists
              /\ \A g : XQueueOK(g)' = XQueueOK(g)
            BY <2>1 DEF Dec, XFunctions, XLists, XQueueOK
        <3>2. XLoopOK' = XLoopOK
            BY <2>1, <3>1 DEF XLoopOK
        <3> QED BY <3>1, <3>2 DEF XInv
    <2>3. QNext' = QNext /\ QLast' = QLast /\ QScan' = QScan
        BY <2>1 DEF QNext, QLast, QScan, X!Pointer, X!Plain, X!XSIMPLEQ_XOR, X!Nil
    <2>4. UNCHANGED X!Q!vars
        BY <2>1, <2>3 DEF X!Q!vars, QNext, QLast, QScan
    <2> QED BY <2>2, <2>4
<1> QED BY <1>1, <1>2, <1>3, <1>4, <1>5, <1>6 DEF X!Next

(***************************************************************************)
(* XSIMPLEQ implements SIMPLEQ, for any addresses and cookies: with the    *)
(* cookie each cell was written with taken off, every macro does to first, *)
(* next and last what the macro without cookies does, although elements    *)
(* move between heads with different cookies, a head may be initialised    *)
(* again with elements on it, and a removed element keeps its pointer.     *)
(***************************************************************************)
THEOREM XorQueuesAreQueues == X!Spec => SimpleQueues
<1>1. X!Init => XInv /\ X!Q!Init
    BY XInit
<1>2. XInv /\ [X!Next]_(X!vars) => XInv' /\ [X!Q!Next]_(X!Q!vars)
    BY XStep
<1>3. X!Spec => X!Q!Spec
    BY <1>1, <1>2, PTL DEF X!Spec, X!Q!Spec
<1> QED BY <1>3 DEF SimpleQueues, X!SimpleQueues

-----------------------------------------------------------------------------
(***************************************************************************)
(* What the loops visit. After n passes a loop over q is at its element    *)
(* n + 1; nothing else satisfies the recursion of Visit, by induction over *)
(* the passes.                                                             *)
(***************************************************************************)
Passes(q, nil, n) == IF n < Len(q) THEN q[n + 1] ELSE nil

(***************************************************************************)
(* A list without repetitions is not longer than there are elements.       *)
(***************************************************************************)
LEMMA ListFits ==
    ASSUME NEW E, IsFiniteSet(E), NEW q \in Seq(E), Distinct(q)
    PROVE  Cardinality(E) \in Nat /\ Len(q) \in Nat /\ Len(q) <= Cardinality(E)
<1>1. q \in Injection(1..Len(q), E)
    <2>1. q \in [1..Len(q) -> E] /\ DOMAIN q = 1..Len(q)
        OBVIOUS
    <2>2. IsInjective(q)
        BY DEF IsInjective, Distinct
    <2> QED BY <2>1, <2>2, Zenon DEF Injection
<1>2. Cardinality(E) \in Nat /\ Len(q) \in Nat
    BY FS_CardinalityType
<1>3. Cardinality(1..Len(q)) = Len(q)
    <2>1. 1 \in Int /\ Len(q) \in Int
        BY <1>2
    <2>2. Cardinality(1..Len(q)) = IF 1 > Len(q) THEN 0 ELSE Len(q) - 1 + 1
        BY <2>1, FS_Interval
    <2> QED BY <1>2, <2>2
<1>4. Cardinality(1..Len(q)) <= Cardinality(E)
    BY <1>1, <1>3, FS_Injection
<1> QED BY <1>2, <1>3, <1>4

(***************************************************************************)
(* Two sequences of passes that begin alike and step alike are the same.   *)
(***************************************************************************)
LEMMA SamePasses ==
    ASSUME NEW N \in Nat, NEW f, NEW g, f[0] = g[0],
           \A n \in 0..N : n # N /\ f[n] = g[n] => f[n + 1] = g[n + 1]
    PROVE  \A n \in 0..N : f[n] = g[n]
<1> DEFINE T == {n \in Nat : n \in 0..N => f[n] = g[n]}
<1>1. 0 \in T
    OBVIOUS
<1>2. ASSUME NEW n \in T PROVE n + 1 \in T
    <2>1. n + 1 \in 0..N => n \in 0..N /\ n # N
        OBVIOUS
    <2> QED BY <2>1
<1>3. T = Nat
    BY <1>1, <1>2, NatInd
<1> QED BY <1>3

(***************************************************************************)
(* What Visit returns, when the passes of its loop are those over q.       *)
(***************************************************************************)
LEMMA VisitedIs ==
    ASSUME NEW E, IsFiniteSet(E), NEW nil, nil \notin E, NEW q \in Seq(E), Distinct(q),
           NEW var, \A n \in 0..Cardinality(E) : var[n] = Passes(q, nil, n)
    PROVE  LET passes == {n \in 0..Cardinality(E) : var[n] # nil}
           IN  [i \in 1..Cardinality(passes) |-> var[i - 1]] = q
<1> DEFINE N == Cardinality(E)
           passes == {n \in 0..N : var[n] # nil}
<1>1. N \in Nat /\ Len(q) \in Nat /\ Len(q) <= N /\ DOMAIN q = 1..Len(q)
      /\ \A i \in 1..Len(q) : q[i] \in E
    BY ListFits
<1>2. passes = 0..(Len(q) - 1)
    <2>1. ASSUME NEW n \in 0..N PROVE var[n] # nil <=> n < Len(q)
        <3>1. CASE n < Len(q)
            <4>1. n + 1 \in 1..Len(q)
                BY <1>1, <3>1
            <4>2. var[n] = q[n + 1] /\ q[n + 1] \in E
                BY <1>1, <3>1, <4>1 DEF Passes
            <4> QED BY <3>1, <4>2
        <3>2. CASE ~(n < Len(q))
            BY <3>2 DEF Passes
        <3> QED BY <3>1, <3>2
    <2>2. \A n : n \in 0..(Len(q) - 1) <=> n \in 0..N /\ n < Len(q)
        BY <1>1
    <2> QED BY <2>1, <2>2
<1>3. Cardinality(passes) = Len(q)
    <2>1. Len(q) - 1 \in Int /\ 0 \in Int
        BY <1>1
    <2>2. Cardinality(0..(Len(q) - 1)) = IF 0 > Len(q) - 1 THEN 0 ELSE (Len(q) - 1) - 0 + 1
        BY <2>1, FS_Interval
    <2>3. Cardinality(0..(Len(q) - 1)) = Len(q)
        BY <1>1, <2>2
    <2> HIDE DEF passes
    <2> QED BY <1>2, <2>3
<1>4. \A i \in 1..Len(q) : var[i - 1] = q[i]
    <2>1. ASSUME NEW i \in 1..Len(q) PROVE var[i - 1] = q[i]
        <3>1. i - 1 \in 0..N /\ i - 1 < Len(q) /\ (i - 1) + 1 = i
            BY <1>1
        <3> QED BY <3>1 DEF Passes
    <2> QED BY <2>1
<1> HIDE DEF passes
<1>5. [i \in 1..Cardinality(passes) |-> var[i - 1]] = q
    <2>1. q = [i \in 1..Len(q) |-> q[i]]
        BY <1>1
    <2> QED BY <1>3, <1>4, <2>1
<1> QED BY <1>5 DEF passes

(***************************************************************************)
(* Passes takes the steps of a loop whose step goes from each element of q *)
(* to the one behind it.                                                   *)
(***************************************************************************)
LEMMA PassesRun ==
    ASSUME NEW E, NEW nil, nil \notin E, NEW q \in Seq(E), NEW n \in Nat \ {0}
    PROVE  LET i == n
           IN  \/ Passes(q, nil, n - 1) = nil /\ Passes(q, nil, n) = nil
               \/ /\ i \in 1..Len(q) /\ Passes(q, nil, n - 1) = q[i] /\ q[i] \in E
                  /\ Passes(q, nil, n) = IF i = Len(q) THEN nil ELSE q[i + 1]
<1>1. Len(q) \in Nat /\ \A j \in 1..Len(q) : q[j] \in E
    OBVIOUS
<1>2. (n - 1) + 1 = n /\ (n - 1 < Len(q) <=> n \in 1..Len(q))
    BY <1>1
<1>3. CASE n \in 1..Len(q)
    <2>1. Passes(q, nil, n - 1) = q[n] /\ q[n] \in E
        BY <1>1, <1>2, <1>3 DEF Passes
    <2>2. n < Len(q) <=> n # Len(q)
        BY <1>1, <1>3
    <2>3. Passes(q, nil, n) = IF n = Len(q) THEN nil ELSE q[n + 1]
        BY <2>2 DEF Passes
    <2> QED BY <1>3, <2>1, <2>3
<1>4. CASE n \notin 1..Len(q)
    <2>1. ~(n < Len(q)) /\ ~(n - 1 < Len(q))
        BY <1>1, <1>2, <1>4
    <2> QED BY <2>1 DEF Passes
<1> QED BY <1>3, <1>4

(***************************************************************************)
(* FOREACH visits the list, in order, and ends. The passes over the list   *)
(* satisfy the recursion of Visit, and nothing else does.                  *)
(***************************************************************************)
LEMMA ForwardVisits ==
    ASSUME TypeOK, Links, NEW h \in Heads
    PROVE  Forward(h) = list[h]
<1> DEFINE q == list[h]
           N == Cardinality(Elems)
           R(g) == g = [n \in 0..N |-> IF n = 0 THEN next[h]
                                       ELSE IF g[n - 1] = NULL THEN NULL ELSE next[g[n - 1]]]
           p == [n \in 0..N |-> Passes(q, NULL, n)]
           var == CHOOSE g : R(g)
<1>1. /\ q \in Seq(Elems) /\ Distinct(q) /\ Len(q) \in Nat /\ N \in Nat
      /\ IsFiniteSet(Elems) /\ NULL \notin Elems
    BY ListsApart, CellAssumption, FS_CardinalityType
<1>2. /\ next[h] = Passes(q, NULL, 0)
      /\ \A i \in 1..Len(q) : next[q[i]] = IF i = Len(q) THEN NULL ELSE q[i + 1]
    <2>1. \A i \in 0..Len(q) : next[At(h, q, i)] = IF i = Len(q) THEN NULL ELSE q[i + 1]
        BY LinksByList DEF ListOK, Chain, Spells
    <2>2. 0 \in 0..Len(q) /\ (0 < Len(q) <=> 0 # Len(q)) /\ 0 + 1 = 1
          /\ \A i \in 1..Len(q) : i \in 0..Len(q) /\ i # 0
        BY <1>1
    <2> QED BY <2>1, <2>2 DEF Passes, At
<1> HIDE DEF q, N
<1>3. ASSUME NEW n \in 1..N
      PROVE  Passes(q, NULL, n) = IF Passes(q, NULL, n - 1) = NULL THEN NULL
                                  ELSE next[Passes(q, NULL, n - 1)]
    <2>1. n \in Nat \ {0}
        BY <1>1
    <2>2. \/ Passes(q, NULL, n - 1) = NULL /\ Passes(q, NULL, n) = NULL
          \/ /\ n \in 1..Len(q) /\ Passes(q, NULL, n - 1) = q[n]
             /\ q[n] # NULL /\ Passes(q, NULL, n) = IF n = Len(q) THEN NULL ELSE q[n + 1]
        BY <1>1, <2>1, PassesRun
    <2> QED BY <1>2, <2>2
<1>4. R(p)
    <2>1. ASSUME NEW n \in 0..N
          PROVE  p[n] = IF n = 0 THEN next[h]
                        ELSE IF p[n - 1] = NULL THEN NULL ELSE next[p[n - 1]]
        <3>1. n # 0 => n \in 1..N /\ n - 1 \in 0..N
            BY <1>1
        <3> QED BY <1>2, <1>3, <3>1
    <2> QED BY <2>1
<1>5. ASSUME NEW g, R(g) PROVE \A n \in 0..N : g[n] = p[n]
    <2>1. g[0] = p[0]
        BY <1>1, <1>2, <1>5
    <2>2. ASSUME NEW n \in 0..N, n # N, g[n] = p[n] PROVE g[n + 1] = p[n + 1]
        <3>1. n + 1 \in 1..N /\ n + 1 \in 0..N /\ (n + 1) - 1 = n /\ n + 1 # 0
            BY <1>1, <2>2
        <3>2. g[n + 1] = IF g[n] = NULL THEN NULL ELSE next[g[n]]
            BY <1>5, <3>1
        <3>3. p[n + 1] = IF p[n] = NULL THEN NULL ELSE next[p[n]]
            BY <1>3, <3>1
        <3> QED BY <2>2, <3>2, <3>3
    <2>3. N \in Nat
        BY <1>1
    <2> HIDE DEF p, R
    <2> QED BY <2>1, <2>2, <2>3, SamePasses
<1>6. R(var)
    <2> HIDE DEF R
    <2> QED BY <1>4
<1>7. \A n \in 0..N : var[n] = Passes(q, NULL, n)
    <2>1. \A n \in 0..N : var[n] = p[n]
        <3> HIDE DEF R, p, var
        <3> QED BY <1>5, <1>6
    <2> HIDE DEF var
    <2> QED BY <2>1
<1>8. LET passes == {n \in 0..N : var[n] # NULL}
      IN  [i \in 1..Cardinality(passes) |-> var[i - 1]] = q
    <2> HIDE DEF var
    <2> QED BY <1>1, <1>7, VisitedIs DEF N
<1> QED BY <1>8 DEF Forward, Visit, q, N

(***************************************************************************)
(* The word behind cell i of a tail queue, followed: the element there, or *)
(* NULL at the head, whose own last pointer is read.                       *)
(***************************************************************************)
LEMMA BehindCell ==
    ASSUME TypeOK, Links, kind = "TAILQ", NEW h \in Heads, NEW i \in 0..Len(list[h])
    PROVE  next[WordBehind(At(h, list[h], i))] = IF i = 0 THEN NULL ELSE list[h][i]
<1> DEFINE q == list[h]
<1>1. /\ \A j \in 0..Len(q) : next[At(h, q, j)] = IF j = Len(q) THEN NULL ELSE q[j + 1]
      /\ \A j \in 1..Len(q) : prev[q[j]] = At(h, q, j - 1)
      /\ last[h] = At(h, q, Len(q))
    BY LinksByList DEF ListOK, Chain, Spells, Back, HasPrev, HasLast
<1>2. Len(q) \in Nat /\ \A j \in 1..Len(q) : q[j] \in Elems /\ q[j] \notin Heads
    BY ListsApart, CellAssumption
<1> HIDE DEF q
<1>3. CASE i = 0
    <2>1. Len(q) \in 0..Len(q)
        BY <1>2
    <2> QED BY <1>1, <1>3, <2>1 DEF WordBehind, At
<1>4. CASE i # 0
    <2>1. i \in 1..Len(q) /\ i - 1 \in 0..Len(q) /\ i - 1 # Len(q) /\ (i - 1) + 1 = i
        BY <1>2, <1>4 DEF q
    <2>2. WordBehind(q[i]) = At(h, q, i - 1)
        BY <1>1, <1>2, <2>1 DEF WordBehind
    <2>3. next[At(h, q, i - 1)] = q[i]
        BY <1>1, <2>1
    <2> QED BY <1>4, <2>2, <2>3 DEF At, q
<1> QED BY <1>3, <1>4

(***************************************************************************)
(* Reverse, element by element.                                            *)
(***************************************************************************)
LEMMA ReverseIs ==
    ASSUME NEW E, NEW q \in Seq(E), Distinct(q)
    PROVE  LET r == Reverse(q)
           IN  /\ r \in Seq(E) /\ Distinct(r) /\ Len(r) = Len(q) /\ Len(q) \in Nat
               /\ \A i \in 1..Len(q) : r[i] = q[(Len(q) - i) + 1]
<1> DEFINE r == Reverse(q)
<1>1. Len(q) \in Nat /\ DOMAIN q = 1..Len(q) /\ \A i \in 1..Len(q) : q[i] \in E
    OBVIOUS
<1>2. r = [i \in 1..Len(q) |-> q[(Len(q) - i) + 1]]
    BY DEF Reverse
<1>3. \A i \in 1..Len(q) : (Len(q) - i) + 1 \in 1..Len(q)
    BY <1>1
<1>4. r \in [1..Len(q) -> E]
    BY <1>1, <1>2, <1>3
<1>5. r \in Seq(E) /\ Len(r) = Len(q) /\ DOMAIN r = 1..Len(q)
    BY <1>1, <1>2, <1>4
<1>6. Distinct(r)
    <2>1. ASSUME NEW i \in 1..Len(q), NEW j \in 1..Len(q), r[i] = r[j] PROVE i = j
        <3>1. (Len(q) - i) + 1 = (Len(q) - j) + 1
            BY <1>1, <1>2, <1>3, <2>1 DEF Distinct
        <3> QED BY <1>1, <3>1
    <2> QED BY <1>5, <2>1 DEF Distinct
<1> QED BY <1>1, <1>2, <1>5, <1>6

(***************************************************************************)
(* TAILQ_FOREACH_REVERSE visits a tail queue backwards.                    *)
(***************************************************************************)
LEMMA BackwardVisits ==
    ASSUME TypeOK, Links, kind = "TAILQ", NEW h \in Heads
    PROVE  TAILQ_FOREACH_REVERSE(h) = Reverse(list[h])
<1> DEFINE q == Reverse(list[h])
           N == Cardinality(Elems)
           R(g) == g = [n \in 0..N |-> IF n = 0 THEN TAILQ_LAST(h)
                          ELSE IF g[n - 1] = NULL THEN NULL ELSE TAILQ_PREV(g[n - 1])]
           p == [n \in 0..N |-> Passes(q, NULL, n)]
           var == CHOOSE g : R(g)
<1>0. /\ list[h] \in Seq(Elems) /\ Distinct(list[h]) /\ Len(list[h]) \in Nat
      /\ \A i \in 1..Len(list[h]) : prev[list[h][i]] = At(h, list[h], i - 1)
      /\ last[h] = At(h, list[h], Len(list[h]))
    BY ListsApart, LinksByList DEF ListOK, Back, HasPrev, HasLast
<1>1. /\ q \in Seq(Elems) /\ Distinct(q) /\ Len(q) \in Nat /\ N \in Nat
      /\ Len(q) = Len(list[h]) /\ \A i \in 1..Len(q) : q[i] = list[h][(Len(q) - i) + 1]
      /\ IsFiniteSet(Elems) /\ NULL \notin Elems
    BY <1>0, ReverseIs, CellAssumption, FS_CardinalityType
<1>2. /\ TAILQ_LAST(h) = Passes(q, NULL, 0)
      /\ \A i \in 1..Len(q) : TAILQ_PREV(q[i]) = IF i = Len(q) THEN NULL ELSE q[i + 1]
    <2> HIDE DEF q
    <2>1. TAILQ_LAST(h) = Passes(q, NULL, 0)
        <3>1. Len(q) \in 0..Len(list[h]) /\ (0 < Len(q) <=> Len(q) # 0)
            BY <1>1
        <3>2. TAILQ_LAST(h) = IF Len(q) = 0 THEN NULL ELSE list[h][Len(q)]
            BY <1>0, <1>1, <3>1, BehindCell DEF TAILQ_LAST
        <3>3. Len(q) # 0 => 1 \in 1..Len(q) /\ (Len(q) - 1) + 1 = Len(q) /\ 0 + 1 = 1
            BY <1>1
        <3> QED BY <1>1, <3>1, <3>2, <3>3 DEF Passes
    <2>2. ASSUME NEW i \in 1..Len(q)
          PROVE  TAILQ_PREV(q[i]) = IF i = Len(q) THEN NULL ELSE q[i + 1]
        <3>1. PICK k \in 1..Len(list[h]) : k = (Len(q) - i) + 1
            BY <1>1
        <3>2. k - 1 \in 0..Len(list[h]) /\ (k - 1 = 0 <=> i = Len(q))
            BY <1>1, <3>1
        <3>3. TAILQ_PREV(list[h][k]) = IF k - 1 = 0 THEN NULL ELSE list[h][k - 1]
            BY <1>0, <3>1, <3>2, BehindCell DEF TAILQ_PREV
        <3>4. i # Len(q) => i + 1 \in 1..Len(q) /\ (Len(q) - (i + 1)) + 1 = k - 1
            BY <1>1, <3>1
        <3> QED BY <1>1, <3>1, <3>2, <3>3, <3>4
    <2> QED BY <2>1, <2>2
<1> HIDE DEF q, N
<1>3. ASSUME NEW n \in 1..N
      PROVE  Passes(q, NULL, n) = IF Passes(q, NULL, n - 1) = NULL THEN NULL
                                  ELSE TAILQ_PREV(Passes(q, NULL, n - 1))
    <2>1. n \in Nat \ {0}
        BY <1>1
    <2>2. \/ Passes(q, NULL, n - 1) = NULL /\ Passes(q, NULL, n) = NULL
          \/ /\ n \in 1..Len(q) /\ Passes(q, NULL, n - 1) = q[n]
             /\ q[n] # NULL /\ Passes(q, NULL, n) = IF n = Len(q) THEN NULL ELSE q[n + 1]
        BY <1>1, <2>1, PassesRun
    <2> QED BY <1>2, <2>2
<1>4. R(p)
    <2>1. ASSUME NEW n \in 0..N
          PROVE  p[n] = IF n = 0 THEN TAILQ_LAST(h)
                        ELSE IF p[n - 1] = NULL THEN NULL ELSE TAILQ_PREV(p[n - 1])
        <3>1. n # 0 => n \in 1..N /\ n - 1 \in 0..N
            BY <1>1
        <3> QED BY <1>2, <1>3, <3>1
    <2> QED BY <2>1
<1>5. ASSUME NEW g, R(g) PROVE \A n \in 0..N : g[n] = p[n]
    <2>1. g[0] = p[0]
        BY <1>1, <1>2, <1>5
    <2>2. ASSUME NEW n \in 0..N, n # N, g[n] = p[n] PROVE g[n + 1] = p[n + 1]
        <3>1. n + 1 \in 1..N /\ n + 1 \in 0..N /\ (n + 1) - 1 = n /\ n + 1 # 0
            BY <1>1, <2>2
        <3>2. g[n + 1] = IF g[n] = NULL THEN NULL ELSE TAILQ_PREV(g[n])
            BY <1>5, <3>1
        <3>3. p[n + 1] = IF p[n] = NULL THEN NULL ELSE TAILQ_PREV(p[n])
            BY <1>3, <3>1
        <3> QED BY <2>2, <3>2, <3>3
    <2>3. N \in Nat
        BY <1>1
    <2> HIDE DEF p, R
    <2> QED BY <2>1, <2>2, <2>3, SamePasses
<1>6. R(var)
    <2> HIDE DEF R
    <2> QED BY <1>4
<1>7. \A n \in 0..N : var[n] = Passes(q, NULL, n)
    <2>1. \A n \in 0..N : var[n] = p[n]
        <3> HIDE DEF R, p, var
        <3> QED BY <1>5, <1>6
    <2> HIDE DEF var
    <2> QED BY <2>1
<1>8. LET passes == {n \in 0..N : var[n] # NULL}
      IN  [i \in 1..Cardinality(passes) |-> var[i - 1]] = q
    <2> HIDE DEF var
    <2> QED BY <1>1, <1>7, VisitedIs DEF N
<1> QED BY <1>8 DEF TAILQ_FOREACH_REVERSE, Visit, q, N

(***************************************************************************)
(* XSIMPLEQ_FOREACH visits the queue of its head.                          *)
(***************************************************************************)
LEMMA XVisits ==
    ASSUME XInv, NEW h \in XHeads
    PROVE  X!Visited(h) = xlist[h]
<1>0. X!Nil = {}
    BY DEF X!Nil
<1> DEFINE q == xlist[h]
           N == Cardinality(XElems)
           R(g) == g = [n \in 0..N |-> IF n = 0 THEN X!XSIMPLEQ_FIRST(h)
                          ELSE IF g[n - 1] = X!Nil THEN X!Nil ELSE X!XSIMPLEQ_NEXT(h, g[n - 1])]
           p == [n \in 0..N |-> Passes(q, X!Nil, n)]
           var == CHOOSE g : R(g)
<1>1. /\ q \in Seq(XElems) /\ Distinct(q) /\ Len(q) \in Nat /\ N \in Nat
      /\ IsFiniteSet(XElems) /\ X!Nil \notin XElems
    <2>1. IsFiniteSet(XHeads \cup XElems)
        BY XAssumption DEF X!AddressAssumption, X!Cell, X!IsFiniteSet, IsFiniteSet
    <2>2. IsFiniteSet(XElems)
        BY <2>1, FS_Subset
    <2> QED BY <1>0, <2>2, XListsApart, XCells, FS_CardinalityType DEF XInv, XCell
<1>2. /\ X!XSIMPLEQ_FIRST(h) = Passes(q, X!Nil, 0)
      /\ \A i \in 1..Len(q) : X!XSIMPLEQ_NEXT(h, q[i]) = IF i = Len(q) THEN X!Nil ELSE q[i + 1]
    <2>1. \A i \in 0..Len(q) : Xor(cookie[h], xnext[At(h, q, i)])
                                   = IF i = Len(q) THEN X!Nil ELSE q[i + 1]
        BY <1>0, DecAt
    <2>2. 0 \in 0..Len(q) /\ (0 < Len(q) <=> 0 # Len(q)) /\ 0 + 1 = 1
          /\ \A i \in 1..Len(q) : i \in 0..Len(q) /\ i # 0
        BY <1>1
    <2>3. Xor(cookie[h], xnext[h]) = Passes(q, X!Nil, 0)
        BY <2>1, <2>2 DEF Passes, At
    <2>4. \A i \in 1..Len(q) : Xor(cookie[h], xnext[q[i]]) = IF i = Len(q) THEN X!Nil ELSE q[i + 1]
        BY <2>1, <2>2 DEF At
    <2> HIDE DEF q
    <2> QED BY <2>3, <2>4 DEF X!XSIMPLEQ_FIRST, X!XSIMPLEQ_NEXT, X!XSIMPLEQ_XOR, Xor
<1> HIDE DEF q, N
<1>3. ASSUME NEW n \in 1..N
      PROVE  Passes(q, X!Nil, n) = IF Passes(q, X!Nil, n - 1) = X!Nil THEN X!Nil
                                  ELSE X!XSIMPLEQ_NEXT(h, Passes(q, X!Nil, n - 1))
    <2>1. n \in Nat \ {0}
        BY <1>1
    <2>2. \/ Passes(q, X!Nil, n - 1) = X!Nil /\ Passes(q, X!Nil, n) = X!Nil
          \/ /\ n \in 1..Len(q) /\ Passes(q, X!Nil, n - 1) = q[n]
             /\ q[n] # X!Nil /\ Passes(q, X!Nil, n) = IF n = Len(q) THEN X!Nil ELSE q[n + 1]
        BY <1>1, <2>1, PassesRun
    <2> QED BY <1>2, <2>2
<1>4. R(p)
    <2>1. ASSUME NEW n \in 0..N
          PROVE  p[n] = IF n = 0 THEN X!XSIMPLEQ_FIRST(h)
                        ELSE IF p[n - 1] = X!Nil THEN X!Nil ELSE X!XSIMPLEQ_NEXT(h, p[n - 1])
        <3>1. n # 0 => n \in 1..N /\ n - 1 \in 0..N
            BY <1>1
        <3> QED BY <1>2, <1>3, <3>1
    <2> QED BY <2>1
<1>5. ASSUME NEW g, R(g) PROVE \A n \in 0..N : g[n] = p[n]
    <2>1. g[0] = p[0]
        BY <1>1, <1>2, <1>5
    <2>2. ASSUME NEW n \in 0..N, n # N, g[n] = p[n] PROVE g[n + 1] = p[n + 1]
        <3>1. n + 1 \in 1..N /\ n + 1 \in 0..N /\ (n + 1) - 1 = n /\ n + 1 # 0
            BY <1>1, <2>2
        <3>2. g[n + 1] = IF g[n] = X!Nil THEN X!Nil ELSE X!XSIMPLEQ_NEXT(h, g[n])
            BY <1>5, <3>1
        <3>3. p[n + 1] = IF p[n] = X!Nil THEN X!Nil ELSE X!XSIMPLEQ_NEXT(h, p[n])
            BY <1>3, <3>1
        <3> QED BY <2>2, <3>2, <3>3
    <2>3. N \in Nat
        BY <1>1
    <2> HIDE DEF p, R
    <2> QED BY <2>1, <2>2, <2>3, SamePasses
<1>6. R(var)
    <2> HIDE DEF R
    <2> QED BY <1>4
<1>7. \A n \in 0..N : var[n] = Passes(q, X!Nil, n)
    <2>1. \A n \in 0..N : var[n] = p[n]
        <3> HIDE DEF R, p, var
        <3> QED BY <1>5, <1>6
    <2> HIDE DEF var
    <2> QED BY <2>1
<1>8. LET passes == {n \in 0..N : var[n] # X!Nil}
      IN  [i \in 1..Cardinality(passes) |-> var[i - 1]] = q
    <2> HIDE DEF var
    <2> QED BY <1>1, <1>7, VisitedIs DEF N
<1> QED BY <1>8 DEF X!Visited, q, N, X!Cardinality, Cardinality

(***************************************************************************)
(* The loops follow from Links, those of XQueues from XInv.                *)
(***************************************************************************)
LEMMA TraversalsHold ==
    ASSUME TypeOK, Links
    PROVE  Traversals
<1> SUFFICES ASSUME NEW h \in Heads
             PROVE  /\ Forward(h) = list[h]
                    /\ kind = "TAILQ" => TAILQ_FOREACH_REVERSE(h) = Reverse(list[h])
                    /\ kind = "STAILQ" =>
                          STAILQ_LAST(h) = IF list[h] = <<>> THEN NULL ELSE Last(list[h])
    BY DEF Traversals, TypeOK, Kind, SLIST_FOREACH, LIST_FOREACH, SIMPLEQ_FOREACH,
           STAILQ_FOREACH, TAILQ_FOREACH
<1>1. ASSUME kind = "STAILQ"
      PROVE  STAILQ_LAST(h) = IF list[h] = <<>> THEN NULL ELSE Last(list[h])
    <2> DEFINE q == list[h]
    <2>1. /\ \A j \in 0..Len(q) : next[At(h, q, j)] = IF j = Len(q) THEN NULL ELSE q[j + 1]
          /\ last[h] = At(h, q, Len(q))
        BY <1>1, LinksByList DEF ListOK, Chain, Spells, HasLast
    <2>2. /\ Len(q) \in Nat /\ (q = <<>> <=> Len(q) = 0)
          /\ \A j \in 1..Len(q) : q[j] \in Elems /\ q[j] # NULL
        BY ListsApart, CellAssumption
    <2>3. next[h] = IF Len(q) = 0 THEN NULL ELSE q[1]
        <3>1. 0 \in 0..Len(q) /\ 0 + 1 = 1
            BY <2>2
        <3> QED BY <2>1, <3>1 DEF At
    <2> HIDE DEF q
    <2>4. Len(q) # 0 => 1 \in 1..Len(q) /\ Len(q) \in 1..Len(q)
        BY <2>2
    <2>5. next[h] = NULL <=> q = <<>>
        BY <2>2, <2>3, <2>4
    <2>6. q # <<>> => last[h] = q[Len(q)]
        BY <2>1, <2>2 DEF At
    <2> QED BY <2>5, <2>6 DEF STAILQ_LAST, Last, q
<1> QED BY <1>1, ForwardVisits, BackwardVisits

(***************************************************************************)
(* Every cell of a queue was written with its cookie, and the loop visits  *)
(* the queue.                                                              *)
(***************************************************************************)
LEMMA OwnCookieHolds ==
    ASSUME XInv
    PROVE  X!OwnCookie
<1> SUFFICES ASSUME NEW h \in XHeads
             PROVE  /\ \A i \in DOMAIN xlist[h] : key[xlist[h][i]] = cookie[h]
                    /\ X!Visited(h) = xlist[h]
    BY DEF X!OwnCookie
<1>1. ASSUME NEW i \in DOMAIN xlist[h] PROVE key[xlist[h][i]] = cookie[h]
    <2>1. i \in 0..Len(xlist[h]) /\ i # 0
        BY XListsApart DEF XInv
    <2> QED BY <2>1, DecAt DEF At
<1> QED BY <1>1, XVisits

(***************************************************************************)
(* The loops of all six families visit each list in order and end, for any *)
(* elements, addresses and cookies: forwards, backwards on tail queues,    *)
(* and with a body that takes the element off.                             *)
(***************************************************************************)
THEOREM LoopsVisitAlways == QueuesSpec => []LoopsVisit
<1> DEFINE I == TypeOK /\ Links /\ LoopInv /\ XInv
<1>1. QueuesInit => I
    BY LinksInit, XInit DEF QueuesInit, Init, LoopInv
<1>2. I /\ [QueuesNext]_<<part, vars, xor>> => I'
    <2> SUFFICES ASSUME I, [QueuesNext]_<<part, vars, xor>> PROVE I'
        OBVIOUS
    <2>1. [Next]_vars /\ [X!Next]_(X!vars)
        BY DEF QueuesNext, xor, X!vars
    <2> QED BY <2>1, LinksStep, LoopStep, XStep
<1>3. I => LoopsVisit
    BY LoopSafe, TraversalsHold, OwnCookieHolds DEF LoopsVisit
<1> QED BY <1>1, <1>2, <1>3, PTL DEF QueuesSpec
=============================================================================
