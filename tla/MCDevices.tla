----------------------------- MODULE MCDevices -----------------------------
(***************************************************************************)
(* Model checking of the files and of the devices behind them, which share *)
(* no state: device says which is used. Files: initrds with everything,    *)
(* with a file that contains a header, without console or frame buffer,    *)
(* with a device that has no driver, with the console's number on /dev/fb, *)
(* without init, and with more members than the tables hold. Console:      *)
(* screens of two columns and one line and of one column and two lines,    *)
(* without and with room behind a line, and with 3 bytes to the pixel.     *)
(* Serial: an int of four bits at its ends and around zero, and texts of   *)
(* up to seven characters.                                                 *)
(***************************************************************************)

EXTENDS Devices

Member(name, major, size) ==
    [magic |-> TRUE, name |-> name, major |-> major, size |-> size]
Data == [magic |-> FALSE, name |-> "", major |-> 0, size |-> 0]

InitFile == <<Member("init", 0, 1000), Data, Data>>
Con == <<Member("console", 0, 0)>>
FbDev == <<Member("fb", 1, 0)>>

MCArchives == {
    InitFile \o Con \o FbDev,
    FbDev \o Con \o InitFile \o <<Data>> \o Con,
    Con \o FbDev \o <<Member("init", 0, 1000), Data, Member("mem", 2, 0)>>,
    InitFile \o FbDev \o <<Member("mem", 2, 0)>>,
    InitFile \o Con,
    InitFile,
    InitFile \o Con \o <<Member("fb", 0, 0)>>,
    Con \o FbDev,
    InitFile \o Con \o FbDev \o Con \o FbDev}

MCNames == {"init", "console", "fb", "mem", "absent"}

MCTexts == {<<"a", "b", "c">>, <<"newline", "a">>, <<"backspace">>}

MCScreens == {[width |-> 36, height |-> 28, pitch |-> 144, bpp |-> 32],
              [width |-> 32, height |-> 26, pitch |-> 96, bpp |-> 24],
              [width |-> 20, height |-> 52, pitch |-> 128, bpp |-> 32]}

MCInts == {-8, -1, 0, 7}
=============================================================================
