------------------------------- MODULE Serial -------------------------------
(***************************************************************************)
(* The serial line: init_serial and write_serial of kernel/com.S, and      *)
(* printk of kernel/serial.c, by which the kernel reports exceptions and   *)
(* failed assertions.  printk sends a directive's text character by        *)
(* character, each after the line status says that the holding register is *)
(* empty; no interrupt comes between.  The device is modelled from how the *)
(* driver uses it.                                                         *)
(***************************************************************************)
EXTENDS Format

CONSTANTS
    Ints,       \* bound: the numbers printed
    MaxPut      \* bound: characters printed

SerialAssumption == Ints \subseteq int /\ MaxPut \in Nat

VARIABLES
    holding,    \* the transmitter holding register: a character or none
    line,       \* what went out
    text,       \* what printk has still to send of the current directive
    base,       \* printk's local variable, or UNSET
    pc,         \* "boot", "idle", "printk"; "panic": the loopback test failed;
                \* "unset": an indeterminate base
    put         \* history variable: what callers asked to print

vars == <<holding, line, text, base, pc, put>>

UNSET == 0

Init ==
    /\ holding = <<>> /\ line = <<>> /\ text = <<>> /\ put = <<>>
    /\ base = UNSET
    /\ pc = "boot"

(***************************************************************************)
(* init_serial reads back what it sent in loopback mode.                   *)
(***************************************************************************)
init_serial ==
    /\ pc = "boot"
    /\ pc' \in {"idle", "panic"}
    /\ UNCHANGED <<holding, line, text, base, put>>

(***************************************************************************)
(* The device sends the character it holds.                                *)
(***************************************************************************)
Transmit ==
    /\ holding # <<>>
    /\ line' = line \o holding
    /\ holding' = <<>>
    /\ UNCHANGED <<text, base, pc, put>>

(***************************************************************************)
(* write_serial reads the status until it allows the write.  A character   *)
(* written too early replaces the one held.                                *)
(***************************************************************************)
NoPolling == TRUE                   \* mutant: the status is not read
WrongBit == holding # <<>>          \* mutant: waits for the opposite
HoldingEmpty == holding = <<>>

Poll == pc = "printk" /\ text # <<>> /\ ~HoldingEmpty /\ UNCHANGED vars

write_serial ==
    /\ pc = "printk" /\ text # <<>>
    /\ HoldingEmpty
    /\ holding' = <<Head(text)>>
    /\ text' = Tail(text)
    /\ UNCHANGED <<line, base, pc, put>>

-----------------------------------------------------------------------------
printk ==
    /\ pc = "idle" /\ Len(put) < MaxPut
    /\ pc' = "printk" /\ base' = UNSET
    /\ UNCHANGED <<holding, line, text, put>>

Send(out, meant) == text' = out /\ put' = put \o meant

(***************************************************************************)
(* A character of the format, %% and %s are copied.                        *)
(***************************************************************************)
Copied(out) == Send(out, out) /\ UNCHANGED <<holding, line, base, pc>>

(***************************************************************************)
(* %c: an argument is never a char here; clang, the Makefile's compiler,   *)
(* takes the low byte of the int that was passed, which is the character.  *)
(***************************************************************************)
Char == Copied(<<LETTER>>)

(***************************************************************************)
(* %d is signed; %x, %X, %o and %b are not.                                *)
(***************************************************************************)
Number(b, n) ==
    /\ Send(kitoa(n, b), IF b = 10 THEN SignedNumeral(n, b) ELSE Numeral(AsUnsigned(n), b))
    /\ base' = b
    /\ UNCHANGED <<holding, line, pc>>

(***************************************************************************)
(* Any other letter takes the base that the last number left.              *)
(***************************************************************************)
Unknown(n) ==
    \/ base = UNSET /\ pc' = "unset" /\ UNCHANGED <<holding, line, text, base, put>>
    \/ /\ base # UNSET
       /\ Send(kitoa(n, base), kitoa(n, base))
       /\ UNCHANGED <<holding, line, base, pc>>

Directive ==
    /\ pc = "printk" /\ text = <<>> /\ Len(put) < MaxPut
    /\ \/ \E out \in {<<>>, <<LETTER>>, <<PERCENT>>, <<LETTER, LETTER>>} : Copied(out)
       \/ Char
       \/ \E n \in Ints : Unknown(n) \/ \E b \in {16, 10, 8, 2} : Number(b, n)

Return ==
    /\ pc = "printk" /\ text = <<>>
    /\ pc' = "idle"
    /\ UNCHANGED <<holding, line, text, base, put>>

Quiet == pc # "printk" /\ holding = <<>> /\ UNCHANGED vars

Next ==
    init_serial \/ Transmit \/ Poll \/ write_serial \/ printk \/ Directive \/ Return \/ Quiet

(***************************************************************************)
(* The device sends what it holds, printk goes on when it can; a format    *)
(* has an end, so printk does not read directives for ever.                *)
(***************************************************************************)
Fairness == WF_vars(Transmit) /\ WF_vars(write_serial) /\ SF_vars(Return)

Spec == Init /\ [][Next]_vars /\ Fairness

-----------------------------------------------------------------------------
(***************************************************************************)
(* Properties                                                              *)
(***************************************************************************)

(***************************************************************************)
(* The line has what callers printed, in order and complete but for what   *)
(* is still to come: no character overtakes or overwrites another, and     *)
(* numbers read as they should.                                            *)
(***************************************************************************)
LineInOrder == line \o holding \o text = put

(***************************************************************************)
(* printk returns, or stops for good where its behaviour is undefined: it  *)
(* never waits for a register that nobody empties.                         *)
(***************************************************************************)
PrintkReturns == (pc = "printk") ~> (pc # "printk")
=============================================================================
