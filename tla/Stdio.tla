------------------------------- MODULE Stdio -------------------------------
(***************************************************************************)
(* libc's stdout and stderr: fputc, fflush, vfprintf with printf and       *)
(* fprintf, and a failed assertion.  vfprintf reads its format one         *)
(* directive at a time, so a call is as many steps as the format has       *)
(* directives, whichever they are; base is its local variable, which only  *)
(* the number conversions set.  It stores without looking at _end.         *)
(***************************************************************************)
EXTENDS Format

CONSTANTS
    BUFSIZ,     \* the size of stdout's buffer
    Ints,       \* bound: the numbers printed
    MaxPut      \* bound: characters printed when a directive starts

StdioAssumption == BUFSIZ \in Nat \ {0} /\ Ints \subseteq int /\ MaxPut \in Nat

Stream == {"stdout", "stderr"}
Size == [stdout |-> BUFSIZ, stderr |-> 0]

VARIABLES
    buf,        \* of each stream, the characters from _buf to _ptr
    written,    \* of each stream, what write was given so far
    put,        \* history variable: what callers asked to print
    job,        \* the call of vfprintf: its stream, base or UNSET, start as
                \* an offset and, as history, from: where in put it began;
                \* s = "none": no call
    ret,        \* what the last vfprintf returned
    count,      \* what the last %n stored
    mode        \* "ok"; "overrun": a store behind the buffer; "unset": a
                \* number converted with an indeterminate base; "returned": a
                \* failed assertion came back

vars == <<buf, written, put, job, ret, count, mode>>

UNSET == 0
Idle == [s |-> "none", base |-> UNSET, start |-> 0, from |-> 0]

Init ==
    /\ buf = [s \in Stream |-> <<>>]
    /\ written = [s \in Stream |-> <<>>]
    /\ put = [s \in Stream |-> <<>>]
    /\ job = Idle
    /\ ret = 0 /\ count = 0
    /\ mode = "ok"

-----------------------------------------------------------------------------
(***************************************************************************)
(* fflush, and __overflow, which lets a character follow what was there.   *)
(***************************************************************************)
fflush(s) ==
    /\ written' = [written EXCEPT ![s] = @ \o buf[s]]
    /\ buf' = [buf EXCEPT ![s] = <<>>]

WrittenFirst(s, c) ==                           \* mutant: no flush in front
    /\ written' = [written EXCEPT ![s] = Append(@, c)]
    /\ UNCHANGED buf
overflow(s, c) ==
    /\ written' = [written EXCEPT ![s] = @ \o buf[s] \o <<c>>]
    /\ buf' = [buf EXCEPT ![s] = <<>>]

Room == Len(put["stdout"]) + Len(put["stderr"]) < MaxPut

Buffered(s, c) == c # NEWLINE /\ Len(buf[s]) < Size[s]

fputc(s, c) ==
    /\ job = Idle /\ mode = "ok" /\ Room
    /\ put' = [put EXCEPT ![s] = Append(@, c)]
    /\ IF Buffered(s, c)
       THEN buf' = [buf EXCEPT ![s] = Append(@, c)] /\ UNCHANGED written
       ELSE overflow(s, c)
    /\ UNCHANGED <<job, ret, count, mode>>

Flush(s) ==
    /\ job = Idle /\ mode = "ok"
    /\ fflush(s)
    /\ UNCHANGED <<put, job, ret, count, mode>>

-----------------------------------------------------------------------------
(***************************************************************************)
(* vfprintf                                                                *)
(***************************************************************************)
fprintf(s) ==
    /\ job = Idle /\ mode = "ok" /\ Room
    /\ job' = [s |-> s, base |-> UNSET, start |-> Len(buf[s]), from |-> Len(put[s])]
    /\ UNCHANGED <<buf, written, put, ret, count, mode>>

printf == fprintf("stdout")

(***************************************************************************)
(* Stores through _ptr: text is what the code stores, meant what the       *)
(* directive is for.                                                       *)
(***************************************************************************)
Store(text, meant) ==
    LET s == job.s IN
    /\ buf' = [buf EXCEPT ![s] = @ \o text]
    /\ put' = [put EXCEPT ![s] = @ \o meant]
    /\ mode' = IF Len(buf'[s]) > Size[s] THEN "overrun" ELSE mode

(***************************************************************************)
(* Directives that are copied: a character, %%, a % at the end, %c.        *)
(***************************************************************************)
Copied(c) == Store(<<c>>, <<c>>) /\ UNCHANGED <<written, job, ret, count>>

String(text) == Store(text, text) /\ UNCHANGED <<written, job, ret, count>>

(***************************************************************************)
(* %n prints nothing and stores how far the call has come.                 *)
(***************************************************************************)
SoFar ==
    /\ count' = Len(buf[job.s]) - job.start
    /\ UNCHANGED <<buf, written, put, job, ret, mode>>

Pointer(n) ==
    /\ Store(<<0, LETTERX>> \o itoa(n, 16), <<0, LETTERX>> \o Numeral(AsUnsigned(n), 16))
    /\ UNCHANGED <<written, job, ret, count>>

(***************************************************************************)
(* %x and %X, %u, %d and %i, %o, %b set base and go on to the conversion.  *)
(***************************************************************************)
Bases == {16, 10, -10, 8, 2}

Number(base, n) ==
    /\ Store(itoa(n, base),
             IF base < 0 THEN SignedNumeral(n, -base) ELSE Numeral(AsUnsigned(n), base))
    /\ job' = [job EXCEPT !.base = base]
    /\ UNCHANGED <<written, ret, count>>

(***************************************************************************)
(* Any other letter: the conversion uses the base the last one left.       *)
(***************************************************************************)
Unknown(n) ==
    \/ /\ job.base = UNSET
       /\ mode' = "unset"
       /\ UNCHANGED <<buf, written, put, job, ret, count>>
    \/ /\ job.base # UNSET
       /\ Store(itoa(n, job.base), itoa(n, job.base))
       /\ UNCHANGED <<written, job, ret, count>>

Directive ==
    /\ job # Idle /\ mode = "ok" /\ Room
    /\ \/ \E c \in {LETTER, PERCENT, NEWLINE} : Copied(c)
       \/ SoFar
       \/ \E text \in {<<>>, <<LETTER, LETTER>>} : String(text)
       \/ \E n \in Ints : Pointer(n) \/ Unknown(n) \/ \E base \in Bases : Number(base, n)

(***************************************************************************)
(* The end of the format: ret counts what is in the buffer, which is then  *)
(* flushed.                                                                *)
(***************************************************************************)
CountedLate(s) == 0                             \* mutant: fflush, then ret
Count(s) == Len(buf[s])

Finish ==
    /\ job # Idle /\ mode = "ok"
    /\ ret' = Count(job.s)
    /\ fflush(job.s)
    /\ job' = Idle
    /\ UNCHANGED <<put, count, mode>>

(***************************************************************************)
(* __assert_fail: the message does not fit stderr's buffer of no bytes,    *)
(* and either spoils what lies behind it or is written; then the function  *)
(* returns to a caller that was compiled not to expect it.                 *)
(***************************************************************************)
AssertFail ==
    /\ job = Idle /\ mode = "ok"
    /\ mode' \in {"overrun", "returned"}
    /\ UNCHANGED <<buf, written, put, job, ret, count>>

Stopped == mode # "ok" /\ UNCHANGED vars

Next ==
    \/ \E s \in Stream : fprintf(s) \/ Flush(s) \/ \E c \in {LETTER, NEWLINE} : fputc(s, c)
    \/ printf \/ Directive \/ Finish \/ AssertFail \/ Stopped

Spec == Init /\ [][Next]_vars

-----------------------------------------------------------------------------
(***************************************************************************)
(* Properties                                                              *)
(***************************************************************************)

(***************************************************************************)
(* No character is lost, doubled or out of order, whichever of fputc and   *)
(* vfprintf printed it; and every conversion prints the number it was      *)
(* given, the most negative one too.                                       *)
(***************************************************************************)
InOrder == mode = "ok" => \A s \in Stream : written[s] \o buf[s] = put[s]

(***************************************************************************)
(* _IOLBF and _IONBF: between calls no complete line waits in stdout's     *)
(* buffer and nothing in stderr's.                                         *)
(***************************************************************************)
LineBuffered ==
    job = Idle /\ mode = "ok" => /\ NEWLINE \notin Range(buf["stdout"])
                                 /\ buf["stderr"] = <<>>

(***************************************************************************)
(* fputc and fflush never go past the end of a buffer, whatever vfprintf   *)
(* left in it.                                                             *)
(***************************************************************************)
WithinBuffer == mode = "ok" => \A s \in Stream : Len(buf[s]) <= Size[s]

(***************************************************************************)
(* vfprintf returns the number of characters it gave to write: with those  *)
(* that fputc had left in the buffer, not the ones of this call alone,     *)
(* which are what %n counts.                                               *)
(***************************************************************************)
ReturnsWritten ==
    [][/\ job # Idle /\ job' = Idle => ret' = Len(written'[job.s]) - Len(written[job.s])
       /\ count' # count => count' = Len(put[job.s]) - job.from]_vars

(***************************************************************************)
(* The static array of itoa holds every number, sign and terminator        *)
(* included: it has one byte to spare for base 2, which must not be signed.*)
(***************************************************************************)
NumbersFit ==
    job.base # UNSET => \A n \in int : Len(itoa(n, job.base)) + 1 <= StaticSize

(***************************************************************************)
(* Output is complete, in order and on time, in buffers that hold it.      *)
(***************************************************************************)
OutputRight == InOrder /\ WithinBuffer /\ LineBuffered /\ NumbersFit
=============================================================================
