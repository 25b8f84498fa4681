----------------------------- MODULE AddressSpace -----------------------------
(***************************************************************************)
(* What a page table is to the code that uses vmiter: a function from      *)
(* virtual pages to physical addresses and permissions, of which one entry *)
(* at a time is replaced.                                                  *)
(***************************************************************************)
CONSTANTS
    VAs,        \* the virtual pages
    Targets     \* what the callers map them to

VARIABLE space

Map(va, t) == space' = [space EXCEPT ![va] = t]

Init == DOMAIN space = VAs

Next == \E va \in VAs, t \in Targets : Map(va, t)

Spec == Init /\ [][Next]_space

==============================================================================
