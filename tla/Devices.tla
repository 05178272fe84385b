------------------------------ MODULE Devices ------------------------------
(***************************************************************************)
(* The files and the devices behind them: Files, Console and Serial.  They *)
(* share no state here (Files counts what is written, Console has what the *)
(* screen shows of it), so device says which of the three is used.         *)
(***************************************************************************)
EXTENDS Integers, Sequences

CONSTANTS
    MaxPid, MaxOpen, Archives, Names, Init0, Console, Fb, MaxInodes, Objects, Texts,
    Cols, Rows, MaxLine,            \* those of Files
    Screens, Chars, FbSizes,        \* of Console
    Width, MaxPut, Ints             \* of Serial

VARIABLES
    device,                                                     \* "files", "screen" or "serial"
    archive, blk, inodes, ofile, pid, used, col, row, state,    \* the state of Files
    fb, mem, cx, cy, shown, over, cmode,                        \* of Console
    holding, line, text, sbase, spc, put                        \* of Serial

files == <<archive, blk, inodes, ofile, pid, used, col, row, state>>
screen == <<fb, mem, cx, cy, shown, over, cmode>>
serial == <<holding, line, text, sbase, spc, put>>

F == INSTANCE Files WITH p <- blk, x <- col, y <- row, mode <- state
C == INSTANCE Console WITH x <- cx, y <- cy, mode <- cmode
S == INSTANCE Serial WITH base <- sbase, pc <- spc

ASSUME FilesAssumption == F!BoundsAssumption
ASSUME ConsoleAssumption == C!ScreensAssumption
ASSUME LineAssumption == S!WidthAssumption /\ S!SerialAssumption

ScreenOff ==
    /\ fb = CHOOSE s \in Screens : TRUE
    /\ mem = <<>> /\ cx = 0 /\ cy = 0 /\ over = {} /\ cmode = "ok"
    /\ shown = [cell \in C!Cells |-> C!Nothing]

DevicesInit ==
    /\ device \in {"files", "screen", "serial"}
    /\ F!Init /\ (device = "files" \/ archive = CHOOSE a \in Archives : TRUE)
    /\ IF device = "screen" THEN C!Init ELSE ScreenOff
    /\ S!Init
DevicesNext ==
    \/ device = "files" /\ F!Next /\ UNCHANGED <<device, screen, serial>>
    \/ device = "screen" /\ C!Next /\ UNCHANGED <<device, files, serial>>
    \/ device = "serial" /\ S!Next /\ UNCHANGED <<device, files, screen>>
DevicesSpec ==
    DevicesInit /\ [][DevicesNext]_<<device, files, screen, serial>> /\ S!Fairness

(***************************************************************************)
(* load_initrd: Files' ListsMembers.                                       *)
(***************************************************************************)
ListsMembers == F!ListsMembers

(***************************************************************************)
(* The descriptors of all processes: Files' DescriptorsRight.              *)
(***************************************************************************)
DescriptorsRight == F!DescriptorsRight

(***************************************************************************)
(* console.c and fbdev.c: Console's ScreenShows.                           *)
(***************************************************************************)
ScreenShows == device = "screen" => C!ScreenShows

(***************************************************************************)
(* serial.c and com.S: Serial's LineInOrder.                               *)
(***************************************************************************)
LineInOrder == device = "serial" => S!LineInOrder

(***************************************************************************)
(* Serial's PrintkReturns.                                                 *)
(***************************************************************************)
PrintkReturns == S!PrintkReturns
=============================================================================
