---------------------------- MODULE MCBootMemory ----------------------------
(* Model-checking instance of BootMemory.                                   *)
EXTENDS BootMemory

Header(load, paddr, filesz, memsz) ==
  [load |-> load, paddr |-> paddr, filesz |-> filesz, memsz |-> memsz]

(* Segments that begin and end inside pages, with a zeroed tail; two that     *)
(* share a page, the higher one first, around a header that is not loaded;   *)
(* an empty one; and a file with nothing to load.                            *)
Kernels ==
  UNION {{<<Header(TRUE, at, 1, 3)>>,
          <<Header(TRUE, at + 3, 1, 1), Header(FALSE, at, 2, 2), Header(TRUE, at, 2, 2)>>}
           : at \in {0, 3, 5, 8}}
  \cup {<<Header(TRUE, 4, 2, 2), Header(TRUE, 6, 0, 0)>>, <<Header(FALSE, 4, 1, 1)>>}
=============================================================================
