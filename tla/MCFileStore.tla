----------------------------- MODULE MCFileStore -----------------------------
(* FileStore on regions of two pages, with objects of one, two and three   *)
(* pages (f3 does not fit): the FAT page can be cut with some entries      *)
(* already programmed, a file can be cut before, inside and after its      *)
(* pages, and f3 ends in the next region or beyond the last.               *)
EXTENDS FileStore, TLC

CONSTANTS f1, f2, f3

MCPages == [f \in File |-> CASE f = f1 -> 1 [] f = f2 -> 2 [] f = f3 -> 3]

(* No property tells one UUID from another.                                *)
MCSymmetry == Permutations(Uuid)
=============================================================================
