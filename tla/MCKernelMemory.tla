--------------------------- MODULE MCKernelMemory ---------------------------
(***************************************************************************)
(* An instance of KernelMemory: pages of two bytes, a program of two       *)
(* segments that share a page, and one frame fewer than its heap can grow. *)
(***************************************************************************)
EXTENDS KernelMemory

TwoSegments == <<[vaddr |-> 21, memsz |-> 2, file |-> <<1, 0>>],
                 [vaddr |-> 23, memsz |-> 2, file |-> <<1>>]>>
WrittenAddr == {25, 26}
ShortLens   == {1, 2}
Bits        == {0, 1}
BothBuilds  == {TRUE, FALSE}
SomeKernel  == {0}
=============================================================================
