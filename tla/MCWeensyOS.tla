------------------------------ MODULE MCWeensyOS ------------------------------
(***************************************************************************)
(* Two allocators.  Each takes two tables, two pages of program, a page of *)
(* stack and one more table for that; with the viewer's page these fill    *)
(* pages 1 to 13 below the kernel.  Six pages above it are left for two    *)
(* heaps of at most five, so a process can run into its stack as well as   *)
(* out of memory.  As on the real machine, the heap begins in the first    *)
(* table of addresses and ends in the second.                              *)
(***************************************************************************)
EXTENDS WeensyOS

MCReserved == {0, 19}
MCKernelImage == 14 .. 18
MCKernelTables == <<30, 32, 34>>
MCSegment == [va |-> 40, pages |-> 2, data |-> 1]
MCImages == [i \in {"allocator", "fork"} |-> <<MCSegment>>]
MCStartRegs(image) ==
    [pc |-> IF image = "fork" THEN "forker" ELSE "start", top |-> 0, rax |-> 0, p |-> 0]
MCAllocators == <<"allocator", "allocator">>
MCKeys == {"a", "f", "q"}
MCFaulty == {2}

==============================================================================
