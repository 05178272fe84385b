------------------------------- MODULE Files -------------------------------
(***************************************************************************)
(* The files of trunix: load_initrd, file_open, sys_open, sys_write        *)
(* (kernel/fs.c), the console and frame buffer devices behind them, the    *)
(* descriptors sys_fork copies and the console's cursor.  The initrd is a  *)
(* sequence of 512 byte blocks; a block with the ustar magic at offset 257 *)
(* is a header to load_initrd, wherever it stands.  kmalloc gives nothing  *)
(* back and gives NULL once Objects objects of files and devices are taken *)
(* (regions, and the page a console takes and never uses, are not          *)
(* counted).  A file table that is full is the subject of Sched.           *)
(***************************************************************************)
EXTENDS Integers, SequencesExt

CONSTANTS
    MaxPid,      \* bound: processes
    MaxOpen,     \* bound: files opened by a process, below MAXFILES
    Archives,    \* initrds: sequences of [magic, name, major, size], with the
                 \* numbers tar was given to write
    Names,       \* the paths that are opened
    Init0, Console, Fb,   \* "/sbin/init", "/dev/console", "/dev/fb"
    MaxInodes,   \* entries that fit in the 0x2000 bytes of the tables
    Objects,     \* objects the kernel heap has room for
    Texts,       \* bound: what is written, sequences of characters
    Cols, Rows,  \* columns and rows of the screen
    MaxLine      \* bound: lines the cursor moves down

CONSOLE == 0
FRAMEBUFFER == 1

(***************************************************************************)
(* struct inode with its name from struct dirent, and struct file, as far  *)
(* as they are read; addr is a block of the archive.                       *)
(***************************************************************************)
inode == [name : STRING, major : Int, size : Nat, addr : Nat]
file == [inode : Nat, data : Nat]
NULL == [inode |-> 0, data |-> 0]      \* no struct file

(***************************************************************************)
(* A block of the archive: the numbers fit in the fields of a header, and  *)
(* the size in an int.                                                     *)
(***************************************************************************)
MAXMAJOR == 262143      \* six octal digits
MAXINT == 2147483647
block == [magic : BOOLEAN, name : STRING, major : 0..MAXMAJOR, size : 0..MAXINT]

Procs == 1..MaxPid

(***************************************************************************)
(* The part of a process's ofile that is used, and the free one behind it. *)
(***************************************************************************)
Slots == 0..MaxOpen

BoundsAssumption ==
    /\ MaxPid \in Nat \ {0} /\ MaxOpen \in Nat /\ MaxOpen >= 3
    /\ MaxInodes \in Nat \ {0} /\ Objects \in Nat
    /\ Cols \in Nat \ {0} /\ Rows \in Nat \ {0} /\ MaxLine \in Nat
    /\ \A a \in Archives : a \in Seq(block)
    /\ \A text \in Texts : text \in Seq(STRING)

VARIABLES
    archive,    \* the initrd
    p,          \* load_initrd's block
    inodes,     \* ino_tbl and dir_tbl from ROOT_INO on
    ofile,      \* the descriptor table of each process
    pid,        \* the next pid; 1 is init
    used,       \* objects taken from the kernel heap
    x, y,       \* the console's cursor
    mode        \* "load", "run", or how the machine stopped

vars == <<archive, p, inodes, ofile, pid, used, x, y, mode>>

Init ==
    /\ archive \in Archives
    /\ p = 1
    /\ inodes = <<>>
    /\ ofile = [q \in Procs |-> [fd \in Slots |-> NULL]]
    /\ pid = 2
    /\ used = 0
    /\ x = 0 /\ y = 0
    /\ mode = "load"

Stop(how) ==
    mode' = how /\ UNCHANGED <<archive, p, inodes, ofile, pid, used, x, y>>

(***************************************************************************)
(* Numbers in a header are octal digits; behind them tar puts a space.     *)
(* oct2int stops at a NUL or after len characters, and takes a space for a *)
(* digit.  int does not overflow: a member lies in memory.                 *)
(***************************************************************************)
Zero == 48
Space == 32
NUL == 0

tar_field(v, digits) ==
    LET rest[k \in 0..digits] == IF k = 0 THEN v ELSE rest[k - 1] \div 8
    IN  [k \in 1..digits |-> Zero + (rest[digits - k] % 8)] \o <<Space, NUL>>

oct2int(c, len) ==
    LET stop == Min({k \in 1..Len(c) : c[k] = NUL} \cup {len + 1}) - 1
        n[k \in 0..stop] == IF k = 0 THEN 0 ELSE n[k - 1] * 8 + c[k] - Zero
    IN  n[stop]

(***************************************************************************)
(* load_initrd looks at every block, the contents of files included.       *)
(***************************************************************************)
MajorLen == 6
SizeLen == 11

AddrHeader(i) == i              \* mutant: the header's own address
AddrOfData(i) == i + 1

HeaderSize(i) == oct2int(tar_field(archive[i].size, 11), SizeLen)

Inode(i) ==
    [name |-> archive[i].name,
     major |-> oct2int(tar_field(archive[i].major, 6), MajorLen),
     size |-> HeaderSize(i),
     addr |-> IF HeaderSize(i) > 0 THEN AddrOfData(i) ELSE 0]

LoadBlock ==
    /\ mode = "load"
    /\ p <= Len(archive)
    /\ \/ ~archive[p].magic /\ UNCHANGED <<inodes, mode>>
       \/ /\ archive[p].magic
          /\ inodes' = Append(inodes, Inode(p))
          /\ mode' = IF Len(inodes) < MaxInodes THEN mode ELSE "overrun"
    /\ p' = p + 1
    /\ UNCHANGED <<archive, ofile, pid, used, x, y>>

(***************************************************************************)
(* The first entry of a name.                                              *)
(***************************************************************************)
Found(name) == \E i \in DOMAIN inodes : inodes[i].name = name
Lookup(name) ==
    CHOOSE i \in DOMAIN inodes :
        /\ inodes[i].name = name
        /\ \A j \in 1..(i - 1) : inodes[j].name # name

(***************************************************************************)
(* The open of a device, through the table indexed by major, as the number *)
(* of objects it takes: the frame buffer's record; or the console's        *)
(* record, and file_open("/dev/fb") with its file and that device's open.  *)
(* Another major is beyond the table.  /dev/fb with the console's major    *)
(* would open itself without end.                                          *)
(***************************************************************************)
DeviceObjects(major) == IF major = CONSOLE THEN 3 ELSE 1

OpenPanics(major) == major = CONSOLE /\ ~Found(Fb)

OpenFaults(major) ==
    \/ major \notin {CONSOLE, FRAMEBUFFER}
    \/ major = CONSOLE /\ Found(Fb) /\ inodes[Lookup(Fb)].major # FRAMEBUFFER

(***************************************************************************)
(* What file->data leads to after the open: the frame buffer of fbdev_open,*)
(* or the one file_open("/dev/fb") returned.                               *)
(***************************************************************************)
DeviceData(major) == IF major = CONSOLE THEN inodes[Lookup(Fb)].major ELSE major

File(i) == [inode |-> i, data |-> DeviceData(inodes[i].major)]

(***************************************************************************)
(* The loop over the descriptors of a process ends at the first free one.  *)
(* Nothing closes a file.                                                  *)
(***************************************************************************)
FirstFree(t) ==
    CHOOSE fd \in Slots : t[fd] = NULL /\ \A k \in 0..(fd - 1) : t[k] # NULL

PutFile(t, f) == [t EXCEPT ![FirstFree(t)] = f]

Opens(q, name) ==
    LET i == Lookup(name)
        major == inodes[i].major
        objects == 1 + DeviceObjects(major)
    IN  \/ OpenPanics(major) /\ Stop("panic")
        \/ ~OpenPanics(major) /\ OpenFaults(major) /\ Stop("fault")
        \/ /\ ~OpenPanics(major) /\ ~OpenFaults(major)
           /\ used + objects > Objects
           /\ Stop("nomem")
        \/ /\ ~OpenPanics(major) /\ ~OpenFaults(major)
           /\ used + objects <= Objects
           /\ used' = used + objects
           /\ ofile' = [ofile EXCEPT ![q] = PutFile(@, File(i))]
           /\ UNCHANGED <<archive, p, inodes, pid, x, y, mode>>

(***************************************************************************)
(* initsys: /sbin/init must be there; the console is opened three times,   *)
(* and that it is missing goes unnoticed.                                  *)
(***************************************************************************)
InitSys ==
    /\ mode = "load"
    /\ p > Len(archive)
    /\ \/ ~Found(Init0) /\ Stop("panic")
       \/ Found(Init0) /\ ~Found(Console) /\ Stop("run")
       \/ Found(Init0) /\ Found(Console) /\ Stop("boot")

InitOpens ==
    /\ mode = "boot"
    /\ \/ FirstFree(ofile[1]) < 3 /\ Opens(1, Console)
       \/ FirstFree(ofile[1]) = 3 /\ Stop("run")

Live(q) == mode = "run" /\ q < pid

SysOpen(q, name) ==
    /\ Live(q)
    /\ FirstFree(ofile[q]) < MaxOpen
    /\ \/ ~Found(name) /\ UNCHANGED vars
       \/ Found(name) /\ Opens(q, name)

(***************************************************************************)
(* sys_fork gives the child a struct file of its own for every descriptor  *)
(* up to the first free one, with the parent's inode and data.             *)
(***************************************************************************)
CopyAllButLast(t) ==            \* mutant: one short
    [fd \in Slots |-> IF fd + 1 < FirstFree(t) THEN t[fd] ELSE NULL]
CopyFiles(t) == [fd \in Slots |-> IF fd < FirstFree(t) THEN t[fd] ELSE NULL]

SysFork(q) ==
    /\ Live(q)
    /\ pid <= MaxPid
    /\ LET taken == used + FirstFree(ofile[q])
       IN  \/ taken > Objects /\ Stop("nomem")
           \/ /\ taken <= Objects
              /\ used' = taken
              /\ ofile' = [ofile EXCEPT ![pid] = CopyFiles(ofile[q])]
              /\ pid' = pid + 1
              /\ UNCHANGED <<archive, p, inodes, x, y, mode>>

(***************************************************************************)
(* fbcon_write, a character at a time.  The character that finds the line  *)
(* full is not drawn.                                                      *)
(***************************************************************************)
LineFull(c) == c.x > Cols

Put(c, ch) ==
    IF LineFull(c) \/ ch = "newline" THEN [c EXCEPT !.x = 0, !.y = @ + 1]
    ELSE IF ch = "backspace" /\ c.x > 0 THEN [c EXCEPT !.x = @ - 1]
    ELSE [c EXCEPT !.x = @ + 1, !.off = @ \/ c.y >= Rows]

(***************************************************************************)
(* The cursor after a text, and whether it drew below the screen.          *)
(***************************************************************************)
Cursor(text) ==
    LET at[i \in 0..Len(text)] ==
            IF i = 0 THEN [x |-> x, y |-> y, off |-> FALSE] ELSE Put(at[i - 1], text[i])
    IN  at[Len(text)]

(***************************************************************************)
(* sys_write: -1 without a file; to a console through the frame buffer its *)
(* data leads to; to a frame buffer by copying.  The code does not bound   *)
(* fd: what lies outside of the table is not modelled.                     *)
(***************************************************************************)
SysWrite(q, fd, text) ==
    /\ Live(q)
    /\ LET f == ofile[q][fd]
           c == Cursor(text)
       IN  \/ f = NULL /\ UNCHANGED vars
           \/ f # NULL /\ inodes[f.inode].major = FRAMEBUFFER /\ UNCHANGED vars
           \/ /\ f # NULL /\ inodes[f.inode].major = CONSOLE
              /\ c.y <= MaxLine
              /\ x' = c.x /\ y' = c.y
              /\ mode' = IF c.off THEN "offscreen" ELSE mode
              /\ UNCHANGED <<archive, p, inodes, ofile, pid, used>>

(***************************************************************************)
(* sys_read changes nothing in the kernel, with a file (a console has      *)
(* nothing to read, a frame buffer is copied to the caller) or without.    *)
(***************************************************************************)
SysRead(q, fd) ==
    /\ Live(q)
    /\ \/ ofile[q][fd] = NULL
       \/ /\ ofile[q][fd] # NULL
          /\ inodes[ofile[q][fd].inode].major \in {CONSOLE, FRAMEBUFFER}
    /\ UNCHANGED vars

Stopped ==
    mode \in {"panic", "fault", "nomem", "overrun", "offscreen"} /\ UNCHANGED vars

Next ==
    \/ LoadBlock \/ InitSys \/ InitOpens
    \/ \E q \in Procs :
          \/ \E name \in Names : SysOpen(q, name)
          \/ SysFork(q)
          \/ \E fd \in Slots : SysRead(q, fd) \/ \E text \in Texts : SysWrite(q, fd, text)
    \/ Stopped

Spec == Init /\ [][Next]_vars

-----------------------------------------------------------------------------
(***************************************************************************)
(* Properties                                                              *)
(***************************************************************************)

(***************************************************************************)
(* Types; a descriptor's file has an inode, and a line never gets longer   *)
(* than one cell past the right edge.                                      *)
(***************************************************************************)
TypeOK ==
    /\ p \in 1..(Len(archive) + 1)
    /\ \A i \in DOMAIN inodes : inodes[i] \in inode
    /\ ofile \in [Procs -> [Slots -> file]]
    /\ \A q \in Procs, fd \in Slots :
          ofile[q][fd] # NULL => ofile[q][fd].inode \in DOMAIN inodes
    /\ pid \in 2..(MaxPid + 1) /\ used \in 0..Objects
    /\ x \in 0..(Cols + 1) /\ y \in 0..MaxLine
    /\ mode \in {"load", "boot", "run", "panic", "fault", "nomem", "overrun",
                "offscreen"}

(***************************************************************************)
(* The archive as tar writes it: from a header, its size in blocks of      *)
(* contents, then the next header.                                         *)
(***************************************************************************)
IsHeader ==
    LET next[i \in 1..(Len(archive) + 1)] ==   \* where the header at or behind
            IF i > Len(archive) THEN {}         \* block i and all later ones stand
            ELSE IF ~archive[i].magic THEN next[i + 1]
            ELSE LET j == i + 1 + (archive[i].size + 511) \div 512
                 IN  {i} \cup (IF j <= Len(archive) THEN next[j] ELSE {})
    IN  next[1]

(***************************************************************************)
(* Unless a file's contents look like a header, load_initrd lists exactly  *)
(* the members of the archive, in order, each at the block of its          *)
(* contents, although it looks at every block, with the size and the       *)
(* device number tar was given, although oct2int knows no end but NUL.     *)
(***************************************************************************)
ListsMembers ==
    mode \notin {"load", "overrun"}
        /\ {i \in DOMAIN archive : archive[i].magic} = IsHeader =>
      /\ Len(inodes) = Cardinality(IsHeader)
      /\ \A i \in IsHeader :
            LET k == Cardinality({j \in IsHeader : j <= i})
            IN  /\ inodes[k].name = archive[i].name
                /\ inodes[k].major = archive[i].major
                /\ inodes[k].size = archive[i].size
                /\ archive[i].size > 0 => inodes[k].addr = i + 1

(***************************************************************************)
(* fbcon_write never meets a console without a frame buffer: every open    *)
(* file of a process, inherited or opened, leads to one, because the open  *)
(* of anything else stops the machine.                                     *)
(***************************************************************************)
LeadsToFb ==
    \A q \in Procs, fd \in Slots :
        ofile[q][fd] # NULL => ofile[q][fd].data = FRAMEBUFFER

(***************************************************************************)
(* A table has no gap, and a free descriptor at its end: so the loops of   *)
(* sys_open and of sys_fork, which stop at the first free one, find one,   *)
(* and a child misses none of its parent's files.                          *)
(***************************************************************************)
NoGaps ==
    \A q \in Procs : \E n \in Slots : \A fd \in Slots : ofile[q][fd] # NULL <=> fd < n

(***************************************************************************)
(* Standard input, output and error of every process are the console, if   *)
(* the initrd has one: they pass from init through every chain of forks.   *)
(***************************************************************************)
StandardFiles ==
    mode = "run" /\ Found(Console) =>
        \A q \in 1..(pid - 1), fd \in 0..2 : ofile[q][fd].inode = Lookup(Console)

(***************************************************************************)
(* Every descriptor can be written to, the first three of a process are    *)
(* those it was meant to have, and a table is used from 0 on.              *)
(***************************************************************************)
DescriptorsRight == TypeOK /\ LeadsToFb /\ NoGaps /\ StandardFiles
=============================================================================
