--------------------------------- MODULE Boot ---------------------------------
(***************************************************************************)
(* How the kernel of mini-operating-system gets into memory: the boot      *)
(* loader (boot.cc) reads it from the disk, and k-hardware.cc puts its     *)
(* data segment back for a soft reboot.                                    *)
(*                                                                         *)
(* The disk holds the loader in sector 0 and the kernel's ELF file from    *)
(* sector 1 on.  A file has its length, its magic number (good or not),    *)
(* its program headers and, from the linker script, data_start; byte i of  *)
(* it is i + 1, so that no two are equal and none is 0.                    *)
(***************************************************************************)
EXTENDS Integers, Sequences

CONSTANTS
    SECTORSIZE,
    HeaderSize,     \* the bytes that are read for the ELF header, a PAGESIZE
    ELFHDR,         \* where they are put
    MemTop          \* the bytes of memory

KERNEL_START_SECTOR == 1
Unset == -1         \* what the memory holds at power-on

\* What the disk has at a sector's offset.
Disk(file, sect, offset) ==
    LET i == (sect - KERNEL_START_SECTOR) * SECTORSIZE + offset
    IN  IF i < file.length THEN i + 1 ELSE 0

RoundDown(a) == a - (a % SECTORSIZE)

-----------------------------------------------------------------------------
\* The sectors from src_sect on, until they reach end_ptr.
ReadSectors(mem, file, ptr, end_ptr, src_sect) ==
    [a \in DOMAIN mem |->
        IF ptr <= a /\ a - ((a - ptr) % SECTORSIZE) < end_ptr
        THEN Disk(file, src_sect + ((a - ptr) \div SECTORSIZE), (a - ptr) % SECTORSIZE)
        ELSE mem[a]]

Clear(mem, first, end) == [a \in DOMAIN mem |-> IF first <= a /\ a < end THEN 0 ELSE mem[a]]

\* variant: the bss is cleared before the sectors are read
boot_readseg_ClearFirst(mem, file, ptr, src_sect, filesz, memsz) ==
    ReadSectors(Clear(mem, ptr + filesz, ptr + memsz), file, RoundDown(ptr), ptr + filesz, src_sect)

boot_readseg(mem, file, ptr, src_sect, filesz, memsz) ==
    Clear(ReadSectors(mem, file, RoundDown(ptr), ptr + filesz, src_sect), ptr + filesz, ptr + memsz)

ReadHeader(mem, file) == boot_readseg(mem, file, ELFHDR, KERNEL_START_SECTOR, HeaderSize, HeaderSize)

\* The loader reads the program headers from the memory at ELFHDR.
HeaderIntact(mem, file) ==
    \A i \in 0 .. HeaderSize - 1 : mem[ELFHDR + i] = Disk(file, KERNEL_START_SECTOR, i)

ReadSegment(mem, file, ph) ==
    boot_readseg(mem, file, ph.p_va, KERNEL_START_SECTOR + (ph.p_offset \div SECTORSIZE), ph.p_filesz, ph.p_memsz)

-----------------------------------------------------------------------------
(* The kernel's one segment, and the addresses that the linker script      *)
(* defines in it.                                                          *)
Segment(file) == file.phs[1]
_data_start(file) == file.data_start
_edata(file) == Segment(file).p_va + Segment(file).p_filesz
_kernel_end(file) == Segment(file).p_va + Segment(file).p_memsz

DataSegment(file) == _data_start(file) .. _edata(file) - 1
BssSegment(file) == _edata(file) .. _kernel_end(file) - 1

\* A kernel file as build/kernel.ld and the linker make it: one segment, as far
\* into a page of the file as into one of the memory, with data_start in it.
Loadable(file) ==
    /\ Len(file.phs) = 1
    /\ {Segment(file).p_va, Segment(file).p_offset, Segment(file).p_filesz, Segment(file).p_memsz,
        file.length, file.data_start} \subseteq Nat
    /\ Segment(file).p_va % SECTORSIZE = Segment(file).p_offset % SECTORSIZE
    /\ Segment(file).p_filesz <= Segment(file).p_memsz
    /\ Segment(file).p_offset + Segment(file).p_filesz <= file.length
    /\ Segment(file).p_va <= _data_start(file) /\ _data_start(file) <= _edata(file)
    /\ _kernel_end(file) <= MemTop

\* stash_kernel_data(false)
Stashed(mem, file) == [a \in DataSegment(file) |-> mem[a]]

\* stash_kernel_data(true); check_keyboard then does the same once more.
stash_kernel_data(mem, file, stash) ==
    [a \in DOMAIN mem |->
        CASE a \in DataSegment(file) -> stash[a]
          [] a \in BssSegment(file) -> 0
          [] OTHER -> mem[a]]

\* init_interrupts turns the function pointers of interrupt_descriptors into
\* gates, in place; it would make something else out of a gate.
Gate(pointer) == pointer + 100
init_interrupts(mem, file) ==
    [a \in DOMAIN mem |-> IF a \in DataSegment(file) THEN Gate(mem[a]) ELSE mem[a]]

==============================================================================
