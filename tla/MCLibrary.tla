----------------------------- MODULE MCLibrary -----------------------------
(***************************************************************************)
(* Model checking of the kernel's heap and of the user library, which      *)
(* share no state (Library). KHeap: a heap of 8 units, requests of one,    *)
(* two and three units on both sides of the rounding, and one that is too  *)
(* large. Malloc: pages of 48 bytes, requests on both sides of a word, and *)
(* one that ends so close to the page that the list does not fit behind    *)
(* it. Strings: six addresses, half of them negative, and every memory of  *)
(* three byte values: the terminator, a letter and a byte above 127.       *)
(* Stdio: an int of four bits, at its ends and around zero, and a buffer   *)
(* of three characters.                                                    *)
(***************************************************************************)

EXTENDS Library

MCSizes == {1, 6, 7, 14, 22, 31}

MCInts == {-8, -1, 0, 7}
=============================================================================
