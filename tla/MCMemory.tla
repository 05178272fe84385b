----------------------------- MODULE MCMemory -----------------------------
(***************************************************************************)
(* Model checking of the three views of an address space (Memory). Vm as   *)
(* in MCVm. Elf: pages of four bytes, every image of one or two segments   *)
(* with small sizes at aligned and unaligned addresses, in either order,   *)
(* crossing pages and sharing them, and the images with other program      *)
(* headers. PageTables: pages of 2 bytes, 2 entries to a table, 16 to a    *)
(* directory: 64 bytes of addresses, the kernel from 32 on.                *)
(***************************************************************************)

EXTENDS MCVm, Memory, TLC

PT_LOAD == 1
Load(va, off, infile, inmem) ==
    [type |-> PT_LOAD, off |-> off, va |-> va, filesz |-> infile, memsz |-> inmem]
Hdr(type) == [type |-> type, off |-> 0, va |-> 4, filesz |-> 0, memsz |-> 1]
File(ph) ==
    [magic |-> TRUE, size |-> 5, entry |-> 4, ph |-> ph, bytes |-> <<11, 12, 13, 14, 15>>]

Segments == {Load(va, 1, size[1], size[2]) :
                va \in {4, 6, 8, 9}, size \in {<<0, 1>>, <<2, 4>>, <<4, 6>>, <<0, 6>>}}
Text == Load(4, 0, 3, 4)

ElfInitFile == File(<<Text, Load(9, 3, 2, 3)>>)
ElfExecs ==
    {ElfInitFile} \cup {File(<<s, t>>) : s, t \in Segments}
    \cup {File(<<Hdr(6), Text, Hdr(7), Load(8, 1, 2, 6)>>), File(<<Text, Hdr(2)>>),
          File(<<Text, Hdr(3)>>), File(<<>>), File(<<Hdr(6)>>),
          [File(<<Text>>) EXCEPT !.magic = FALSE], [File(<<>>) EXCEPT !.size = 0],
          File(<<Text, Load(8, 2, 1, 2), Load(12, 0, 4, 4)>>)}

MCFbs == {[addr |-> 56, size |-> 3],      \* whole big pages
          [addr |-> 58, size |-> 4],      \* starts inside a big page
          [addr |-> 60, size |-> 4],      \* ends at the end of memory
          [addr |-> 16, size |-> 4]}      \* in the lower half
MCMapping == {[va |-> 9, pa |-> 18, len |-> 3],     \* parts of two pages
              [va |-> 26, pa |-> 22, len |-> 2],
              [va |-> 30, pa |-> 20, len |-> 2]}    \* the stack
MCLens == {3, 57, 63}    \* two pages; a sum that wraps; a length that rounds to 0

UserSymmetry == Permutations(Users)
=============================================================================
