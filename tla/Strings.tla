------------------------------ MODULE Strings ------------------------------
(***************************************************************************)
(* The memory and string routines: kernel/string.S, kernel/string.c and    *)
(* their copies in libc, which differ in strlcpy alone.  A routine reads   *)
(* and writes one address space; what it was called with and the memory it *)
(* found stay in call until the caller goes on.  Loops are what they do to *)
(* memory byte by byte.                                                    *)
(***************************************************************************)
EXTENDS Integers, FiniteSetsExt

CONSTANTS
    Half,   \* half the address space: higher addresses are negative as int
    Byte    \* byte values, 0 among them

Addr == 0..(2 * Half - 1)
NUL == 0

StringsAssumption ==
    Half \in Nat \ {0} /\ Byte \subseteq 0..255 /\ NUL \in Byte

VARIABLES
    mem,    \* the byte at each address
    call    \* the call that has returned: fn, its arguments d, s, n, and old,
            \* the memory it found; fn = "none" between calls

vars == <<mem, call>>

None == [fn |-> "none"]

Init == mem \in [Addr -> Byte] /\ call = None

(***************************************************************************)
(* int and char are signed.                                                *)
(***************************************************************************)
AsInt(a) == IF a >= Half THEN a - 2 * Half ELSE a
AsChar(b) == IF b > 127 THEN b - 256 ELSE b

-----------------------------------------------------------------------------
(***************************************************************************)
(* Comparison.  Each loop stops at the first index that decides.           *)
(***************************************************************************)
Ends(m, s) == {i \in 0..(2 * Half - 1 - s) : m[s + i] = NUL}
IsString(m, s) == Ends(m, s) # {}

strlen(m, s) == Min(Ends(m, s))

Index(a, b, n) == {i \in 0..(n - 1) : a + i \in Addr /\ b + i \in Addr}

memcmp(m, a, b, n) ==
    LET stop == {i \in Index(a, b, n) : m[a + i] # m[b + i]}
    IN  IF stop = {} THEN 0 ELSE m[a + Min(stop)] - m[b + Min(stop)]

strcmp(m, a, b) ==
    LET i == Min({j \in 0..Min({strlen(m, a), strlen(m, b)}) :
                    m[a + j] = NUL \/ m[b + j] = NUL \/ m[a + j] # m[b + j]})
    IN  AsChar(m[a + i]) - AsChar(m[b + i])

StopsAtNul(m, a, b, n) ==           \* mutant: a string that ends is a match
    LET stop == {i \in Index(a, b, n) : m[a + i] = NUL \/ m[b + i] = NUL \/ m[a + i] # m[b + i]}
    IN  IF stop = {} \/ m[a + Min(stop)] = NUL \/ m[b + Min(stop)] = NUL
        THEN 0 ELSE m[a + Min(stop)] - m[b + Min(stop)]
strncmp(m, a, b, n) ==
    LET stop == {i \in Index(a, b, n) : m[a + i] # m[b + i] \/ m[a + i] = NUL}
    IN  IF stop = {} THEN 0 ELSE m[a + Min(stop)] - m[b + Min(stop)]

libc_strlen(m, s) == strlen(m, s)
libc_memcmp(m, a, b, n) == memcmp(m, a, b, n)
libc_strcmp(m, a, b) == strcmp(m, a, b)
libc_strncmp(m, a, b, n) == strncmp(m, a, b, n)

-----------------------------------------------------------------------------
(***************************************************************************)
(* Copying.  rep movsb moves one byte at a time, upwards or, with the      *)
(* direction flag set, downwards from the last one.                        *)
(***************************************************************************)
CopyUp(m, d, s, n) ==
    LET done[k \in 0..n] == IF k = 0 THEN m
                            ELSE [done[k - 1] EXCEPT ![d + k - 1] = done[k - 1][s + k - 1]]
    IN  done[n]

CopyDown(m, d, s, n) ==
    LET done[k \in 0..n] == IF k = 0 THEN m
                            ELSE [done[k - 1] EXCEPT ![d + n - k] = done[k - 1][s + n - k]]
    IN  done[n]

memcpy(m, d, s, n) == CopyUp(m, d, s, n)

memset(m, d, c, n) == [a \in Addr |-> IF a \in d..(d + n - 1) THEN c ELSE m[a]]

(***************************************************************************)
(* jg: the addresses are compared as signed numbers.                       *)
(***************************************************************************)
memmove(m, d, s, n) ==
    IF AsInt(d) > AsInt(s) THEN CopyUp(m, d, s, n) ELSE CopyDown(m, d, s, n)

(***************************************************************************)
(* strncpy copies up to the terminator and neither copies it nor pads.     *)
(* The kernel's strlcpy copies it too, when it comes within len bytes.     *)
(* libc's always writes one, behind the bytes it copied.                   *)
(***************************************************************************)
strncpy(m, d, s, n) == CopyUp(m, d, s, Min({n, strlen(m, s)}))

strlcpy(m, d, s, n) == CopyUp(m, d, s, Min({n, strlen(m, s) + 1}))

libc_strncpy(m, d, s, n) == strncpy(m, d, s, n)

libc_strlcpy(m, d, s, n) ==
    LET k == Min({strlen(m, s), n}) IN [CopyUp(m, d, s, k) EXCEPT ![d + k] = NUL]

-----------------------------------------------------------------------------
(***************************************************************************)
(* Calls.  The caller sees to it that both ranges are memory, that what is *)
(* read as a string is one, and, memmove excepted, that the ranges do not  *)
(* overlap.  room is what the routine may touch at d.                      *)
(***************************************************************************)
Span(a, n) == a..(a + n - 1)
Apart(d, s, n) == Span(d, n) \cap Span(s, n) = {}

Call(fn, d, s, n, room, m) ==
    /\ call = None
    /\ d + room <= 2 * Half /\ s + n <= 2 * Half
    /\ mem' = m
    /\ call' = [fn |-> fn, d |-> d, s |-> s, n |-> n, old |-> mem]

Memory(d, s, n) ==
    \/ Apart(d, s, n) /\ Call("memcpy", d, s, n, n, memcpy(mem, d, s, n))
    \/ Call("memmove", d, s, n, n, memmove(mem, d, s, n))

Fill(d, c, n) == call = None /\ mem' = memset(mem, d, c, n) /\ UNCHANGED call

Text(d, s, n) ==
    /\ IsString(mem, s)
    /\ Span(d, n + 1) \cap Span(s, strlen(mem, s) + 1) = {}
    /\ \/ Call("strncpy", d, s, n, n, strncpy(mem, d, s, n))
       \/ Call("strlcpy", d, s, n, n, strlcpy(mem, d, s, n))
       \/ Call("libc_strncpy", d, s, n, n, libc_strncpy(mem, d, s, n))
       \/ Call("libc_strlcpy", d, s, n, n + 1, libc_strlcpy(mem, d, s, n))

GoOn == call # None /\ call' = None /\ UNCHANGED mem

Next ==
    \/ \E d, s \in Addr, n \in 0..Half :
          d + n \in Addr /\ s + n \in Addr /\ (Memory(d, s, n) \/ Text(d, s, n))
    \/ \E d \in Addr, c \in Byte, n \in 0..Half : d + n \in Addr /\ Fill(d, c, n)
    \/ GoOn

Spec == Init /\ [][Next]_vars

-----------------------------------------------------------------------------
(***************************************************************************)
(* Properties                                                              *)
(***************************************************************************)
(***************************************************************************)
(* memcpy, and memmove between ranges that are apart or the same, copy all *)
(* n bytes and touch nothing else, whichever direction the comparison of   *)
(* the addresses chose: fork and the ELF loader copy images this way.      *)
(* Overlapping ranges are copied in the wrong direction and are not part   *)
(* of the claim.                                                           *)
(***************************************************************************)
CopiesAll ==
    call.fn \in {"memcpy", "memmove"} /\ (call.d = call.s \/ Apart(call.d, call.s, call.n)) =>
        \A a \in Addr :
            mem[a] = IF a \in Span(call.d, call.n) THEN call.old[call.s + a - call.d]
                     ELSE call.old[a]

SameText(k) == \A i \in 0..(k - 1) : mem[call.d + i] = call.old[call.s + i]
Touched(k) == \A a \in Addr \ Span(call.d, k) : mem[a] = call.old[a]

(***************************************************************************)
(* What the kernel's strlcpy leaves at d, with room for n bytes: the whole *)
(* string when it is shorter than n, and never a write outside the n       *)
(* bytes; but no terminator otherwise, so a name cut by load_initrd would  *)
(* not end.                                                                *)
(***************************************************************************)
StringFits ==
    call.fn = "strlcpy" =>
        /\ Touched(call.n)
        /\ LET len == strlen(call.old, call.s) IN
           IF len < call.n
           THEN IsString(mem, call.d) /\ strlen(mem, call.d) = len /\ SameText(len)
           ELSE SameText(call.n)

(***************************************************************************)
(* strncpy leaves the copied characters and nothing behind them: the       *)
(* terminator of d is whatever was there.                                  *)
(***************************************************************************)
NotTerminated ==
    call.fn \in {"strncpy", "libc_strncpy"} =>
        LET k == Min({call.n, strlen(call.old, call.s)}) IN SameText(k) /\ Touched(k)

(***************************************************************************)
(* libc's strlcpy always leaves a string, the first n characters; for that *)
(* it may write one byte more than n.                                      *)
(***************************************************************************)
StringEnds ==
    call.fn = "libc_strlcpy" =>
        LET len == Min({call.n, strlen(call.old, call.s)})
        IN  /\ Touched(len + 1)
            /\ IsString(mem, call.d) /\ strlen(mem, call.d) = len /\ SameText(len)

Strings == {s \in Addr : IsString(mem, s)}

Agree(len(_, _), cmp(_, _, _), ncmp(_, _, _, _), bcmp(_, _, _, _)) ==
    \A a, b \in Strings :
        LET n == Max({len(mem, a), len(mem, b)}) + 1
            equal == /\ len(mem, a) = len(mem, b)
                     /\ \A i \in 0..len(mem, a) : mem[a + i] = mem[b + i]
        IN  /\ (cmp(mem, a, b) = 0) <=> equal
            /\ (ncmp(mem, a, b, n) = 0) <=> equal
            /\ a + n - 1 \in Addr /\ b + n - 1 \in Addr => ((bcmp(mem, a, b, n) = 0) <=> equal)
            /\ cmp(mem, a, b) = -cmp(mem, b, a)
            /\ \A c \in Strings : cmp(mem, a, b) < 0 /\ cmp(mem, b, c) < 0 => cmp(mem, a, c) < 0

(***************************************************************************)
(* The comparisons agree on what is equal: strcmp, by which files are      *)
(* found, strncmp with a limit past both ends, and memcmp of the longer    *)
(* string with its terminator; the order of strcmp is antisymmetric and    *)
(* transitive although char is signed there and unsigned in strncmp.       *)
(***************************************************************************)
CompareAgree ==
    call = None => /\ Agree(strlen, strcmp, strncmp, memcmp)
                   /\ Agree(libc_strlen, libc_strcmp, libc_strncmp, libc_memcmp)

(***************************************************************************)
(* Every routine does to memory, or returns, what its callers in fs.c,     *)
(* proc.c and libc take it to.                                             *)
(***************************************************************************)
RoutinesRight == CopiesAll /\ StringFits /\ NotTerminated /\ StringEnds /\ CompareAgree
=============================================================================
