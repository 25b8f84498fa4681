---------------------------- MODULE MachineProofs ----------------------------
(***************************************************************************)
(* Proofs about the machine, for every kernel file, keyboard, stack and    *)
(* symbol table of Machine's assumptions: what boot.cc and                 *)
(* stash_kernel_data leave in memory, what keyboard_readc returns, and     *)
(* what the backtrace of a panic says.                                     *)
(***************************************************************************)
EXTENDS Machine, WellFoundedInduction, TLAPS

-----------------------------------------------------------------------------
(* The kernel's first values.                                              *)

\* The byte that a kernel starts with at an address of its segment.
First(file, a) ==
    IF a < _edata(file) THEN a - Segment(file).p_va + Segment(file).p_offset + 1 ELSE 0

\* The kernel's text, its data and its bss as the file has them.
Fresh(m, file) == \A a \in Segment(file).p_va .. _kernel_end(file) - 1 : m[a] = First(file, a)

\* While the kernel runs its text stays as it is, and the stash has its data.
TextKept(m, file) == \A a \in Segment(file).p_va .. _data_start(file) - 1 : m[a] = First(file, a)
DataStashed(st, file) == \A a \in DataSegment(file) : st[a] = First(file, a)

Running == {"run", "schedule", "panic", "fail"}

BootInv ==
    /\ session.file \in Files
    /\ mode \in {"power", "load", "entry", "hang", "off"} \cup Running
    /\ mem = [a \in 0 .. MemTop - 1 |-> mem[a]]
    /\ mode = "power" => ph = 1
    /\ mode = "load" => ph = 1 \/ (ph = 2 /\ Fresh(mem, session.file))
    /\ mode = "entry" => Fresh(mem, session.file)
    /\ mode \in Running => TextKept(mem, session.file) /\ DataStashed(stash, session.file)

\* Rounding down to a sector takes off what is beyond it.
LEMMA SectorOf ==
    ASSUME NEW x \in Nat
    PROVE  /\ x % SECTORSIZE \in 0 .. SECTORSIZE - 1
           /\ x \div SECTORSIZE \in Nat
           /\ x = (x \div SECTORSIZE) * SECTORSIZE + (x % SECTORSIZE)
  BY FilesLoadable, SMT

\* What FilesLoadable says of a file.
LEMMA FileFacts ==
    ASSUME NEW file \in Files
    PROVE  /\ Segment(file).p_va \in Nat /\ Segment(file).p_offset \in Nat
           /\ Segment(file).p_filesz \in Nat /\ Segment(file).p_memsz \in Nat
           /\ file.length \in Nat /\ _data_start(file) \in Nat
           /\ _edata(file) \in Nat /\ _kernel_end(file) \in Nat
           /\ _edata(file) = Segment(file).p_va + Segment(file).p_filesz
           /\ _kernel_end(file) = Segment(file).p_va + Segment(file).p_memsz
           /\ Segment(file).p_va <= _data_start(file) /\ _data_start(file) <= _edata(file)
           /\ _edata(file) <= _kernel_end(file) /\ _kernel_end(file) <= MemTop
           /\ Segment(file).p_offset + Segment(file).p_filesz <= file.length
           /\ Segment(file).p_va % SECTORSIZE = Segment(file).p_offset % SECTORSIZE
           /\ Len(file.phs) = 1
  <1>1. Loadable(file) /\ SECTORSIZE \in Nat \ {0} /\ MemTop \in Nat
    BY FilesLoadable, Zenon
  <1>2. /\ Segment(file).p_va \in Nat /\ Segment(file).p_offset \in Nat
        /\ Segment(file).p_filesz \in Nat /\ Segment(file).p_memsz \in Nat
        /\ file.length \in Nat /\ _data_start(file) \in Nat
    BY <1>1, Zenon DEF Loadable, _data_start
  <1>3. /\ _edata(file) \in Nat /\ _kernel_end(file) \in Nat
        /\ _edata(file) = Segment(file).p_va + Segment(file).p_filesz
        /\ _kernel_end(file) = Segment(file).p_va + Segment(file).p_memsz
    BY <1>2 DEF _edata, _kernel_end
  <1>4. /\ Segment(file).p_va % SECTORSIZE = Segment(file).p_offset % SECTORSIZE
        /\ Segment(file).p_filesz <= Segment(file).p_memsz
        /\ Segment(file).p_va <= _data_start(file) /\ _data_start(file) <= _edata(file)
        /\ _kernel_end(file) <= MemTop
        /\ Segment(file).p_offset + Segment(file).p_filesz <= file.length
        /\ Len(file.phs) = 1
    BY <1>1, Zenon DEF Loadable
  <1>5. _edata(file) <= _kernel_end(file)
    BY <1>2, <1>3, <1>4
  <1> QED  BY <1>2, <1>3, <1>4, <1>5, Zenon

\* An address of the segment that the file has bytes for is read from the sector
\* that holds its byte, whichever sector the segment begins in.
LEMMA SectorsRight ==
    ASSUME NEW file \in Files, NEW m, DOMAIN m = 0 .. MemTop - 1,
           NEW a \in Segment(file).p_va .. _edata(file) - 1
    PROVE  ReadSectors(m, file, RoundDown(Segment(file).p_va), _edata(file),
                       KERNEL_START_SECTOR + (Segment(file).p_offset \div SECTORSIZE))[a]
             = First(file, a)
  <1> DEFINE va == Segment(file).p_va
             off == Segment(file).p_offset
             S == SECTORSIZE
             ptr == RoundDown(va)
             d == a - ptr
             sect == KERNEL_START_SECTOR + (off \div S)
             edata == _edata(file)
             q == d \div S
             r == d % S
             oq == off \div S
             or == off % S
  <1>1. /\ va \in Nat /\ off \in Nat /\ S \in Nat \ {0} /\ file.length \in Nat
        /\ va % S = or /\ edata \in Nat
        /\ a \in Nat /\ va <= a /\ a < edata /\ off + (a - va) < file.length
    <2>1. va % S = or
      BY FileFacts, Zenon
    <2> DEFINE filesz == Segment(file).p_filesz
    <2>2. /\ va \in Nat /\ off \in Nat /\ file.length \in Nat /\ filesz \in Nat
          /\ edata = va + filesz /\ off + filesz <= file.length
      BY FileFacts, Zenon
    <2> HIDE DEF va, off, filesz, edata, or
    <2>3. a \in va .. edata - 1
      BY Zenon DEF va, edata
    <2> QED  BY <2>1, <2>2, <2>3, FilesLoadable
  <1>2. a \in DOMAIN m
    BY <1>1, FileFacts, FilesLoadable
  <1>3. or \in 0 .. S - 1 /\ oq \in Nat /\ off = oq * S + or
    BY <1>1, SectorOf, Zenon
  <1>4. ptr = va - or /\ va % S \in 0 .. S - 1 /\ va = (va \div S) * S + (va % S) /\ va \div S \in Nat
    BY <1>1, SectorOf, Zenon DEF RoundDown
  <1> HIDE DEF va, S, or, oq, edata, ptr
  <1>5. (va \div S) * S \in Nat
    BY <1>4, <1>1
  <1>6. ptr \in Nat /\ ptr <= va
    BY <1>1, <1>3, <1>4, <1>5
  <1>7. d \in Nat /\ d = (a - va) + or
    BY <1>1, <1>3, <1>4, <1>6
  <1> HIDE DEF d
  <1>8. r \in 0 .. S - 1 /\ q \in Nat /\ d = q * S + r
    BY <1>7, SectorOf, Zenon DEF S
  <1> HIDE DEF q, r
  <1>9. a - r < edata
    BY <1>1, <1>8
  <1>10. ((sect + q) - KERNEL_START_SECTOR) * S + r = off + (a - va)
    <2>1. (sect + q) - KERNEL_START_SECTOR = oq + q
      BY <1>3, <1>8 DEF KERNEL_START_SECTOR, oq
    <2>2. (oq + q) * S = oq * S + q * S /\ oq * S \in Nat /\ q * S \in Nat
      BY <1>1, <1>3, <1>8
    <2>3. (oq + q) * S + r = off + (a - va)
      BY <2>2, <1>1, <1>3, <1>7, <1>8
    <2> QED  BY <2>1, <2>3, Zenon
  <1> HIDE DEF sect, off
  <1>11. Disk(file, sect + q, r) = off + (a - va) + 1
    <2> DEFINE i == ((sect + q) - KERNEL_START_SECTOR) * S + r
    <2>1. Disk(file, sect + q, r) = IF i < file.length THEN i + 1 ELSE 0
      BY Zenon DEF Disk, S
    <2>2. i = off + (a - va)
      BY <1>10, Zenon
    <2> HIDE DEF i
    <2> QED  BY <2>1, <2>2, <1>1, Zenon
  <1>12. ReadSectors(m, file, ptr, edata, sect)[a] = Disk(file, sect + q, r)
    BY <1>1, <1>2, <1>6, <1>9 DEF ReadSectors, d, q, r, S
  <1>13. First(file, a) = a - va + off + 1
    BY <1>1, Zenon DEF First, va, edata, off
  <1>14. ReadSectors(m, file, ptr, edata, sect)[a] = First(file, a)
    BY <1>11, <1>12, <1>13, <1>1
  <1> QED  BY <1>14, Zenon DEF ptr, va, S, edata, sect, off

\* boot_readseg leaves the segment as the file has it, and clears the rest.
LEMMA SegmentFresh ==
    ASSUME NEW file \in Files, NEW m, DOMAIN m = 0 .. MemTop - 1
    PROVE  Fresh(ReadSegment(m, file, Segment(file)), file)
  <1> DEFINE r == ReadSectors(m, file, RoundDown(Segment(file).p_va), _edata(file),
                              KERNEL_START_SECTOR + (Segment(file).p_offset \div SECTORSIZE))
  <1>1. ReadSegment(m, file, Segment(file)) = Clear(r, _edata(file), _kernel_end(file))
    BY Zenon DEF ReadSegment, boot_readseg, _edata, _kernel_end
  <1>2. DOMAIN r = 0 .. MemTop - 1
    BY Zenon DEF ReadSectors
  <1>3. ASSUME NEW a \in Segment(file).p_va .. _edata(file) - 1
        PROVE  r[a] = First(file, a)
    BY SectorsRight, Zenon
  <1> HIDE DEF r
  <1>4. /\ Segment(file).p_va \in Nat /\ _edata(file) \in Nat /\ _kernel_end(file) \in Nat
        /\ _edata(file) <= _kernel_end(file) /\ _kernel_end(file) <= MemTop /\ MemTop \in Nat
    BY FileFacts, FilesLoadable, Zenon
  <1>5. ASSUME NEW a \in Segment(file).p_va .. _kernel_end(file) - 1
        PROVE  Clear(r, _edata(file), _kernel_end(file))[a] = First(file, a)
    <2>1. a \in DOMAIN r
      BY <1>2, <1>4
    <2>2. CASE a < _edata(file)
      BY <2>1, <2>2, <1>3, <1>4 DEF Clear
    <2>3. CASE a >= _edata(file)
      BY <2>1, <2>3, <1>4 DEF Clear, First
    <2> QED  BY <2>2, <2>3, <1>4
  <1> QED  BY <1>1, <1>5, Zenon DEF Fresh

-----------------------------------------------------------------------------
(* BootInv is inductive.                                                   *)

\* The machine is switched on with nothing loaded.
LEMMA BootInit == Init => BootInv
  <1> SUFFICES ASSUME Init PROVE BootInv  BY Zenon
  <1>1. AnyFile \in Files
    BY FilesLoadable, Zenon DEF AnyFile
  <1>2. session.file \in Files
    BY <1>1, Zenon DEF Init
  <1> QED  BY <1>2, Zenon DEF Init, BootInv, Running

\* A soft reboot puts the kernel back as it was: the text was never changed.
LEMMA RebootFresh ==
    ASSUME NEW file \in Files, NEW m, NEW st, DOMAIN m = 0 .. MemTop - 1,
           TextKept(m, file), DataStashed(st, file)
    PROVE  Fresh(stash_kernel_data(m, file, st), file)
  <1> SUFFICES ASSUME NEW a \in Segment(file).p_va .. _kernel_end(file) - 1
               PROVE  stash_kernel_data(m, file, st)[a] = First(file, a)
    BY Zenon DEF Fresh
  <1> DEFINE va == Segment(file).p_va
             start == _data_start(file)
             edata == _edata(file)
             end == _kernel_end(file)
  <1>1. /\ va \in Nat /\ start \in Nat /\ edata \in Nat /\ end \in Nat /\ MemTop \in Nat
        /\ va <= start /\ start <= edata /\ edata <= end /\ end <= MemTop
    BY FileFacts, FilesLoadable, Zenon
  <1>2. /\ DataSegment(file) = start .. edata - 1
        /\ BssSegment(file) = edata .. end - 1
    BY Zenon DEF DataSegment, BssSegment
  <1>3. \A b \in va .. start - 1 : m[b] = First(file, b)
    BY Zenon DEF TextKept
  <1>4. \A b \in DataSegment(file) : st[b] = First(file, b)
    BY Zenon DEF DataStashed
  <1>5. a \in edata .. end - 1 => First(file, a) = 0
    BY <1>1 DEF First
  <1> HIDE DEF va, start, edata, end
  <1>6. a \in va .. end - 1
    BY Zenon DEF va, end
  <1>7. a \in DOMAIN m
    BY <1>1, <1>6
  <1>8. CASE a < start
    <2>1. a \notin DataSegment(file) /\ a \notin BssSegment(file) /\ a \in va .. start - 1
      BY <1>1, <1>2, <1>6, <1>8
    <2> QED  BY <2>1, <1>3, <1>7, Zenon DEF stash_kernel_data
  <1>9. CASE start <= a /\ a < edata
    <2>1. a \in DataSegment(file) /\ a \notin BssSegment(file)
      BY <1>1, <1>2, <1>6, <1>9
    <2> QED  BY <2>1, <1>4, <1>7, Zenon DEF stash_kernel_data
  <1>10. CASE edata <= a
    <2>1. a \in BssSegment(file) /\ a \notin DataSegment(file)
      BY <1>1, <1>2, <1>6, <1>10
    <2>2. First(file, a) = 0
      BY <2>1, <1>2, <1>5, Zenon
    <2> QED  BY <2>1, <2>2, <1>7, Zenon DEF stash_kernel_data
  <1> QED  BY <1>8, <1>9, <1>10, <1>1, <1>6

\* check_keyboard goes on, turns the machine off or reboots the kernel.
LEMMA PollBoot ==
    ASSUME BootInv, mode \in Running, NEW next \in Running, check_keyboard(next)
    PROVE  BootInv'
  <1>1. /\ session' = session /\ ph' = ph /\ stash' = stash
        /\ \/ mem' = mem /\ mode' \in {next, "off"}
           \/ mem' = stash_kernel_data(mem, session.file, stash) /\ mode' = "entry"
    BY Zenon DEF check_keyboard
  <1>2. DOMAIN mem = 0 .. MemTop - 1
    BY Zenon DEF BootInv
  <1>3. CASE mem' = mem /\ mode' \in {next, "off"}
    BY <1>1, <1>3, Zenon DEF BootInv, Running
  <1>4. CASE mem' = stash_kernel_data(mem, session.file, stash) /\ mode' = "entry"
    <2>1. Fresh(mem, session.file)'
      BY <1>1, <1>2, <1>4, RebootFresh, Zenon DEF BootInv
    <2>2. mem' = [a \in 0 .. MemTop - 1 |-> mem'[a]]
      BY <1>2, <1>4 DEF stash_kernel_data
    <2> QED  BY <2>1, <2>2, <1>1, <1>4, Zenon DEF BootInv, Running
  <1> QED  BY <1>1, <1>3, <1>4, Zenon

\* The kernel's start keeps its first data for the next one, and its text.
LEMMA StartBoot == ASSUME BootInv, kernel_start PROVE BootInv'
  <1> DEFINE file == session.file
  <1>1. /\ mode' = "run" /\ session' = session /\ ph' = ph
        /\ stash' = Stashed(mem, file)
        /\ mem' = Used(init_interrupts(mem, file), file)
        /\ Fresh(mem, file) /\ file \in Files
    BY Zenon DEF kernel_start, BootInv
  <1>2. DOMAIN mem = 0 .. MemTop - 1
    BY Zenon DEF BootInv
  <1>3. mem' = [a \in 0 .. MemTop - 1 |-> mem'[a]]
    BY <1>1, <1>2, Zenon DEF Used, init_interrupts
  <1>4. /\ Segment(file).p_va \in Nat /\ _data_start(file) \in Nat /\ _edata(file) \in Nat
        /\ _kernel_end(file) \in Nat /\ MemTop \in Nat
        /\ Segment(file).p_va <= _data_start(file) /\ _data_start(file) <= _edata(file)
        /\ _edata(file) <= _kernel_end(file) /\ _kernel_end(file) <= MemTop
    BY <1>1, FileFacts, FilesLoadable, Zenon
  <1> HIDE DEF file
  <1>5. DataStashed(stash', file)
    BY <1>1, <1>4 DEF DataStashed, Stashed, Fresh, DataSegment
  <1>6. TextKept(mem', file)
    <2> SUFFICES ASSUME NEW a \in Segment(file).p_va .. _data_start(file) - 1
                 PROVE  mem'[a] = First(file, a)
      BY Zenon DEF TextKept
    <2>1. a \in 0 .. MemTop - 1 /\ a \in Segment(file).p_va .. _kernel_end(file) - 1
      BY <1>4
    <2>2. a \notin DataSegment(file) /\ a \notin BssSegment(file)
      BY <1>4 DEF DataSegment, BssSegment
    <2>3. mem'[a] = mem[a]
      BY <2>1, <2>2, <1>1, <1>2, Zenon DEF Used, init_interrupts
    <2> QED  BY <2>1, <2>3, <1>1, Zenon DEF Fresh
  <1> QED  BY <1>1, <1>3, <1>5, <1>6, Zenon DEF BootInv, Running, file

\* The loader: it reads the one segment, and jumps when it has.
LEMMA LoaderBoot == ASSUME BootInv, boot \/ LoadSegment \/ JumpToKernel PROVE BootInv'
  <1>0. DOMAIN mem = 0 .. MemTop - 1
    BY Zenon DEF BootInv
  <1>1. CASE boot
    <2>1. mem' = [a \in 0 .. MemTop - 1 |-> mem'[a]]
      BY <1>1, <1>0, Zenon DEF boot, ReadHeader, boot_readseg, ReadSectors, Clear
    <2> QED  BY <2>1, <1>1, Zenon DEF boot, Calm, BootInv, Running
  <1>2. CASE LoadSegment
    <2>1. session.file \in Files /\ session' = session /\ mode' = "load"
      BY <1>2, Zenon DEF LoadSegment, Calm, BootInv
    <2>2. Len(session.file.phs) = 1
      BY <2>1, FileFacts, Zenon
    <2>3. ph = 1 /\ ph' = 2
      BY <2>2, <1>2 DEF LoadSegment, BootInv
    <2>4. mem' = ReadSegment(mem, session.file, Segment(session.file))
      BY <2>3, <1>2, Zenon DEF LoadSegment, Segment
    <2>5. mem' = [a \in 0 .. MemTop - 1 |-> mem'[a]]
      BY <2>4, <1>0, Zenon DEF ReadSegment, boot_readseg, ReadSectors, Clear
    <2>6. Fresh(mem', session.file)
      BY <2>1, <2>4, <1>0, SegmentFresh, Zenon
    <2> QED  BY <2>1, <2>3, <2>5, <2>6, Zenon DEF BootInv, Running
  <1>3. CASE JumpToKernel
    <2>1. session.file \in Files
      BY Zenon DEF BootInv
    <2>2. Len(session.file.phs) = 1
      BY <2>1, FileFacts, Zenon
    <2> QED  BY <2>2, <1>3 DEF JumpToKernel, Calm, BootInv, Running
  <1> QED  BY <1>1, <1>2, <1>3, Zenon

\* What leaves the memory alone leaves the machine in its mode, or panics further.
LEMMA OthersBoot ==
    ASSUME BootInv,
           \/ PressKey \/ ReleaseKey \/ ByteArrives \/ Begin \/ BeginAssertFail \/ PutNext
           \/ Finish \/ Snprintf \/ error_print_backtrace \/ UNCHANGED vars
    PROVE  BootInv'
  <1>1. UNCHANGED boot_vars /\ (mode' = mode \/ (mode = "panic" /\ mode' = "fail"))
    BY Zenon DEF PressKey, ReleaseKey, ByteArrives, Begin, BeginAssertFail, PutNext, Finish,
                 Snprintf, error_print_backtrace, vars
  <1> QED  BY <1>1, Zenon DEF boot_vars, BootInv, Running

\* Every step of boot, kernel and keyboard keeps BootInv.
LEMMA BootStep == BootInv /\ [Next]_vars => BootInv'
  <1> SUFFICES ASSUME BootInv, [Next]_vars PROVE BootInv'  BY Zenon
  <1>1. CASE boot \/ LoadSegment \/ JumpToKernel
    BY <1>1, LoaderBoot, Zenon
  <1>2. CASE kernel_start
    BY <1>2, StartBoot, Zenon
  <1>3. CASE \/ PressKey \/ ReleaseKey \/ ByteArrives \/ Begin \/ BeginAssertFail \/ PutNext
             \/ Finish \/ Snprintf \/ error_print_backtrace \/ UNCHANGED vars
    BY <1>3, OthersBoot, Zenon
  <1>4. CASE schedule
    <2>1. CASE check_keyboard("schedule")
      BY <1>4, <2>1, PollBoot, Zenon DEF schedule, Running
    <2>2. CASE UNCHANGED boot_vars /\ mode' = "run"
      BY <1>4, <2>2, Zenon DEF schedule, boot_vars, BootInv, Running
    <2> QED  BY <1>4, <2>1, <2>2, Zenon DEF schedule
  <1>5. CASE Preempt \/ PageFault \/ Unexpected \/ sys_panic \/ KernelPageFault \/ fail
    <2>1. mode \in Running /\ \E next \in Running : check_keyboard(next)
      BY <1>5, Zenon DEF Preempt, PageFault, Unexpected, sys_panic, KernelPageFault, fail, Running
    <2> QED  BY <2>1, PollBoot, Zenon
  <1> QED  BY <1>1, <1>2, <1>3, <1>4, <1>5, Zenon DEF Next

\* Whenever the kernel starts, from the disk or after a soft reboot, every byte of
\* its text, data and bss is what its file says (boot_readseg, stash_kernel_data,
\* check_keyboard), for every file, sector size and memory.
THEOREM KernelStartsPristine == Spec => []KernelPristine
  <1>1. BootInv => KernelPristine
    <2> SUFFICES ASSUME BootInv, mode = "entry" PROVE KernelPristine
      BY Zenon DEF KernelPristine
    <2> DEFINE seg == Segment(session.file)
    <2>1. session.file \in Files /\ Fresh(mem, session.file)
      BY Zenon DEF BootInv
    <2>2. /\ seg.p_va \in Nat /\ seg.p_offset \in Nat /\ seg.p_filesz \in Nat /\ seg.p_memsz \in Nat
          /\ _edata(session.file) = seg.p_va + seg.p_filesz
          /\ _kernel_end(session.file) = seg.p_va + seg.p_memsz
      BY <2>1, FileFacts, Zenon
    <2>3. ASSUME NEW i \in 0 .. seg.p_memsz - 1
          PROVE  mem[seg.p_va + i] = IF i < seg.p_filesz THEN seg.p_offset + i + 1 ELSE 0
      <3>1. seg.p_va + i \in seg.p_va .. _kernel_end(session.file) - 1
        BY <2>2
      <3>2. mem[seg.p_va + i] = First(session.file, seg.p_va + i)
        BY <3>1, <2>1, Zenon DEF Fresh
      <3>3. First(session.file, seg.p_va + i)
              = IF seg.p_va + i < _edata(session.file) THEN (seg.p_va + i) - seg.p_va + seg.p_offset + 1 ELSE 0
        BY Zenon DEF First
      <3> HIDE DEF seg
      <3> QED  BY <3>2, <3>3, <2>2
    <2> QED  BY <2>3, Zenon DEF KernelPristine
  <1> QED  BY <1>1, BootInit, BootStep, PTL DEF Spec

-----------------------------------------------------------------------------
(* The binary search of lookup_symbol.                                     *)

\* A set of natural numbers that is not empty has a least one.
LEMMA LeastNat ==
    ASSUME NEW T, T \subseteq Nat, T # {}
    PROVE  \E m \in T : \A i \in T : m <= i
  <1>1. PICK m \in T : \A i \in T : ~ (<<i, m>> \in OpToRel(<, Nat))
    BY WFMin, NatLessThanWellFounded, Zenon
  <1>2. \A i \in T : ~ (i < m)
    BY <1>1, Zenon DEF OpToRel
  <1> QED  BY <1>2

NSym == Len(symtab)
Bounds == (0 .. NSym) \X (0 .. NSym)
Middle(b) == b[1] + ((b[2] - b[1]) \div 2)

\* A turn of the loop, which goes on as f says, and the whole search.
Turn(addr, f, b) ==
    IF b[1] >= b[2] THEN 0
    ELSE IF Hit(Middle(b), addr) THEN (IF symtab[Middle(b) + 1].st_value = 0 THEN 0 ELSE Middle(b) + 1)
    ELSE IF symtab[Middle(b) + 1].st_value < addr THEN f[<<Middle(b) + 1, b[2]>>]
    ELSE f[<<b[1], Middle(b)>>]

IsSearch(addr, f) == f = [b \in Bounds |-> Turn(addr, f, b)]

\* The middle is inside the bounds, so that both halves are shorter.
LEMMA MiddleInside ==
    ASSUME NEW b \in Bounds
    PROVE  /\ NSym \in Nat /\ b[1] \in 0 .. NSym /\ b[2] \in 0 .. NSym /\ b = <<b[1], b[2]>>
           /\ b[1] < b[2] =>
                /\ Middle(b) \in b[1] .. b[2] - 1
                /\ <<Middle(b) + 1, b[2]>> \in Bounds /\ <<b[1], Middle(b)>> \in Bounds
  <1>1. NSym \in Nat
    BY SymtabSorted DEF NSym
  <1>2. b[1] \in 0 .. NSym /\ b[2] \in 0 .. NSym /\ b = <<b[1], b[2]>>
    BY DEF Bounds
  <1>3. ASSUME b[1] < b[2] PROVE Middle(b) \in b[1] .. b[2] - 1
    <2> DEFINE w == b[2] - b[1]
    <2>1. w \in Nat /\ w > 0
      BY <1>1, <1>2, <1>3
    <2> HIDE DEF w
    <2>2. w \div 2 \in Nat /\ w \div 2 < w
      BY <2>1
    <2>3. Middle(b) = b[1] + (w \div 2) /\ b[2] = b[1] + w
      BY <1>1, <1>2 DEF Middle, w
    <2> QED  BY <2>1, <2>2, <2>3, <1>1, <1>2
  <1> QED  BY <1>1, <1>2, <1>3 DEF Bounds

\* A turn on bounds at most w + 1 apart needs f on bounds at most w apart only.
LEMMA TurnLocal ==
    ASSUME NEW addr, NEW f, NEW g, NEW w \in Nat, NEW b \in Bounds, b[2] - b[1] <= w + 1,
           \A c \in Bounds : c[2] - c[1] <= w => f[c] = g[c]
    PROVE  Turn(addr, f, b) = Turn(addr, g, b)
  <1>1. CASE b[1] >= b[2]
    BY <1>1, Zenon DEF Turn
  <1>2. CASE ~ (b[1] >= b[2])
    <2> DEFINE up == <<Middle(b) + 1, b[2]>>
               down == <<b[1], Middle(b)>>
    <2>1. up \in Bounds /\ down \in Bounds /\ Middle(b) \in b[1] .. b[2] - 1
          /\ b[1] \in Nat /\ b[2] \in Nat
      BY <1>2, MiddleInside
    <2>2. up[2] - up[1] <= w /\ down[2] - down[1] <= w
      BY <2>1
    <2>3. f[up] = g[up] /\ f[down] = g[down]
      BY <2>1, <2>2, Zenon
    <2> QED  BY <1>2, <2>3, Zenon DEF Turn
  <1> QED  BY <1>1, <1>2, Zenon

\* The loop ends, so that the search is defined.
LEMMA SearchExists == ASSUME NEW addr PROVE \E f : IsSearch(addr, f)
  <1> DEFINE Upto(f, w) == \A b \in Bounds : b[2] - b[1] <= w => f[b] = Turn(addr, f, b)
  <1>0. \E f : Upto(f, 0)
    <2> DEFINE z == [b \in Bounds |-> 0]
    <2>1. ASSUME NEW b \in Bounds, b[2] - b[1] <= 0 PROVE z[b] = Turn(addr, z, b)
      <3>1. NSym \in Nat /\ b[1] \in 0 .. NSym /\ b[2] \in 0 .. NSym
        BY MiddleInside, Zenon
      <3>2. b[1] >= b[2]
        BY <2>1, <3>1
      <3> QED  BY <3>2, Zenon DEF Turn
    <2> QED  BY <2>1, Zenon
  <1> DEFINE Bad == {w \in Nat : ~ \E f : Upto(f, w)}
  <1>1. Bad = {}
    <2> SUFFICES ASSUME Bad # {} PROVE FALSE  BY Zenon
    <2>1. PICK w \in Bad : \A v \in Bad : w <= v
      BY LeastNat, Zenon
    <2>2. w # 0
      BY <1>0, Zenon
    <2>3. w - 1 \in Nat /\ w - 1 \notin Bad
      <3>1. w \in Nat
        BY Zenon
      <3> HIDE DEF Bad
      <3>2. w - 1 \in Nat /\ ~ (w <= w - 1)
        BY <3>1, <2>2
      <3> QED  BY <2>1, <3>2, Zenon
    <2>4. PICK f : Upto(f, w - 1)
      BY <2>3, Zenon
    <2> DEFINE g == [b \in Bounds |-> IF b[2] - b[1] <= w - 1 THEN f[b] ELSE Turn(addr, f, b)]
    <2>5. \A c \in Bounds : c[2] - c[1] <= w - 1 => f[c] = g[c]
      BY Zenon
    <2>6. ASSUME NEW b \in Bounds, b[2] - b[1] <= w PROVE g[b] = Turn(addr, g, b)
      <3>1. b[2] - b[1] <= (w - 1) + 1
        BY <2>3, <2>6
      <3>2. Turn(addr, f, b) = Turn(addr, g, b)
        <4> DEFINE v == w - 1
        <4>1. /\ v \in Nat /\ b[2] - b[1] <= v + 1
              /\ \A c \in Bounds : c[2] - c[1] <= v => f[c] = g[c]
          BY <2>3, <2>5, <3>1, Zenon
        <4> HIDE DEF g, v
        <4> QED  BY <4>1, TurnLocal, ZenonT(30)
      <3>3. g[b] = Turn(addr, f, b)
        BY <2>4, Zenon
      <3> QED  BY <3>2, <3>3, Zenon
    <2>7. Upto(g, w)
      BY <2>6, Zenon
    <2> QED  BY <2>7, <2>1, Zenon
  <1>2. NSym \in Nat
    BY SymtabSorted DEF NSym
  <1>3. PICK f : Upto(f, NSym)
    BY <1>1, <1>2, Zenon
  <1> DEFINE g == [b \in Bounds |-> f[b]]
  <1>4. ASSUME NEW b \in Bounds PROVE g[b] = Turn(addr, g, b)
    <2>0. b[1] \in 0 .. NSym /\ b[2] \in 0 .. NSym
      BY MiddleInside, Zenon
    <2>1. b[2] - b[1] <= NSym /\ b[2] - b[1] <= NSym + 1
      BY <2>0, <1>2
    <2>2. \A c \in Bounds : f[c] = g[c]
      BY Zenon
    <2>3. Turn(addr, f, b) = Turn(addr, g, b)
      <3> HIDE DEF g
      <3> QED  BY <1>2, <2>1, <2>2, TurnLocal, Zenon
    <2> QED  BY <1>3, <2>1, <2>3, Zenon
  <1>5. IsSearch(addr, g)
    <2>1. g = [b \in Bounds |-> g[b]]
      BY Zenon
    <2> HIDE DEF g
    <2> QED  BY <2>1, <1>4, Zenon DEF IsSearch
  <1> QED  BY <1>5, Zenon

\* What the search may answer, between bounds: a symbol that holds the address, or
\* 0 if none of those does but one that shares its start with another.
Answer(addr, b, v) ==
    /\ v # 0 => v \in DOMAIN symtab /\ Holds(v, addr)
    /\ v = 0 => \A i \in DOMAIN symtab :
                    b[1] < i /\ i <= b[2] /\ Holds(i, addr) => AnotherStarts(i, addr)

\* The table is sorted, with numbers for addresses.
LEMMA SymtabFacts ==
    /\ NSym \in Nat /\ DOMAIN symtab = 1 .. NSym
    /\ \A i \in 1 .. NSym : symtab[i].st_value \in Nat /\ symtab[i].st_size \in Nat
    /\ \A i, j \in 1 .. NSym : i <= j => symtab[i].st_value <= symtab[j].st_value
  <1> DEFINE R == [st_value : Nat, st_size : Nat, name : {symtab[i].name : i \in DOMAIN symtab}]
  <1>1. /\ symtab \in Seq(R)
        /\ \A i, j \in DOMAIN symtab : i <= j => symtab[i].st_value <= symtab[j].st_value
    BY SymtabSorted, Zenon
  <1>2. ASSUME NEW e \in R PROVE e.st_value \in Nat /\ e.st_size \in Nat
    BY Zenon
  <1> HIDE DEF R
  <1>3. NSym \in Nat /\ DOMAIN symtab = 1 .. NSym /\ \A i \in 1 .. NSym : symtab[i] \in R
    BY <1>1 DEF NSym
  <1> QED  BY <1>1, <1>2, <1>3, Zenon

\* A turn answers rightly if the search it goes on with does.
LEMMA TurnRight ==
    ASSUME NEW addr \in Nat, NEW f, NEW b \in Bounds,
           \A c \in Bounds : c[2] - c[1] < b[2] - b[1] => Answer(addr, c, f[c])
    PROVE  Answer(addr, b, Turn(addr, f, b))
  <1> DEFINE l == b[1]
             r == b[2]
             m == Middle(b)
             up == <<m + 1, r>>
             down == <<l, m>>
             V(i) == symtab[i].st_value
  <1>0. /\ NSym \in Nat /\ DOMAIN symtab = 1 .. NSym
        /\ \A i \in 1 .. NSym : V(i) \in Nat
        /\ \A i, j \in 1 .. NSym : i <= j => V(i) <= V(j)
    BY SymtabFacts, Zenon
  <1>1. l \in 0 .. NSym /\ r \in 0 .. NSym
    BY MiddleInside, Zenon
  <1>2. CASE l >= r
    BY <1>0, <1>1, <1>2 DEF Turn, Answer
  <1>3. CASE l < r
    <2>1. m \in l .. r - 1 /\ up \in Bounds /\ down \in Bounds
      BY <1>3, MiddleInside, Zenon
    <2>2. /\ up[2] - up[1] < r - l /\ down[2] - down[1] < r - l
          /\ m + 1 \in 1 .. NSym /\ (m + 1 < NSym => m + 2 \in 1 .. NSym)
      BY <2>1, <1>0, <1>1
    <2>3. Answer(addr, up, f[up]) /\ Answer(addr, down, f[down])
      BY <2>1, <2>2, Zenon
    <2>4. Hit(m, addr) <=> /\ V(m + 1) <= addr
                           /\ m + 1 = NSym \/ addr < V(m + 2)
                           /\ symtab[m + 1].st_size = 0 \/ addr <= V(m + 1) + symtab[m + 1].st_size
      BY Zenon DEF Hit, NSym
    <2>5. ASSUME NEW i \in 1 .. NSym, Holds(i, addr)
          PROVE  /\ V(i) # 0 /\ V(i) <= addr
                 /\ i < NSym => i + 1 \in 1 .. NSym /\ addr < V(i + 1)
                 /\ i = m + 1 => Hit(m, addr)
      <3>1. /\ V(i) # 0 /\ V(i) <= addr /\ (i < NSym => addr < V(i + 1))
            /\ symtab[i].st_size = 0 \/ addr <= V(i) + symtab[i].st_size
        BY <2>5, Zenon DEF Holds, NSym
      <3>2. i = m + 1 => Hit(m, addr)
        <4> SUFFICES ASSUME i = m + 1 PROVE Hit(m, addr)  BY Zenon
        <4>1. m + 1 = NSym \/ addr < V(m + 2)
          <5>1. i < NSym => i + 1 = m + 2
            BY <2>1, <1>1
          <5>2. i = NSym \/ i < NSym
            BY <1>0
          <5> QED  BY <3>1, <5>1, <5>2, Zenon
        <4> QED  BY <2>4, <3>1, <4>1, Zenon
      <3> QED  BY <3>1, <3>2, <1>0
    <2>6. CASE Hit(m, addr)
      <3>1. CASE V(m + 1) = 0
        <4>1. Turn(addr, f, b) = 0
          BY <1>3, <1>1, <2>6, <3>1, Zenon DEF Turn
        <4>2. ASSUME NEW i \in 1 .. NSym, Holds(i, addr) PROVE FALSE
          <5>1. V(i) # 0 /\ V(i) <= addr
            BY <4>2, <2>5, Zenon
          <5>2. m + 1 < i
            BY <5>1, <3>1, <1>0, <2>2
          <5>3. m + 2 \in 1 .. NSym /\ m + 1 # NSym /\ m + 2 <= i
            BY <5>2, <2>1, <2>2, <1>0, <1>1
          <5>4. V(m + 2) <= V(i) /\ V(m + 2) \in Nat /\ V(i) \in Nat
            BY <5>3, <1>0, Zenon
          <5> QED  BY <5>1, <5>3, <5>4, <2>4, <2>6
        <4> QED  BY <4>1, <4>2, <1>0, Zenon DEF Answer
      <3>2. CASE V(m + 1) # 0
        <4>1. Turn(addr, f, b) = m + 1 /\ m + 1 # 0
          BY <1>3, <1>1, <2>1, <2>6, <3>2 DEF Turn
        <4>2. Holds(m + 1, addr)
          <5>1. m + 1 < Len(symtab) => addr < symtab[(m + 1) + 1].st_value
            <6>1. m + 1 < NSym => m + 1 # NSym /\ (m + 1) + 1 = m + 2
              BY <2>2, <1>0, <2>1, <1>1
            <6> QED  BY <6>1, <2>4, <2>6, Zenon DEF NSym
          <5> QED  BY <5>1, <2>4, <2>6, <3>2, Zenon DEF Holds
        <4> QED  BY <4>1, <4>2, <2>2, <1>0, Zenon DEF Answer
      <3> QED  BY <3>1, <3>2, Zenon
    <2>7. CASE ~ Hit(m, addr) /\ V(m + 1) < addr
      <3>1. Turn(addr, f, b) = f[up]
        BY <1>3, <1>1, <2>7 DEF Turn
      <3>2. ASSUME NEW i \in 1 .. NSym, Holds(i, addr) PROVE m + 1 < i
        <4> SUFFICES ASSUME i <= m + 1 PROVE FALSE
          BY <2>2, <1>0
        <4>1. i < m + 1
          BY <3>2, <2>5, <2>7, <2>2, <1>0
        <4>2. i < NSym /\ i + 1 <= m + 1
          BY <4>1, <2>2, <1>0
        <4>3. i + 1 \in 1 .. NSym /\ addr < V(i + 1)
          BY <4>2, <3>2, <2>5, Zenon
        <4>4. V(i + 1) <= V(m + 1) /\ V(i + 1) \in Nat /\ V(m + 1) \in Nat
          BY <4>2, <4>3, <2>2, <1>0, Zenon
        <4> QED  BY <4>3, <4>4, <2>7
      <3>3. up[1] = m + 1 /\ up[2] = r
        BY Zenon
      <3> QED  BY <3>1, <3>2, <3>3, <2>3, <1>0, Zenon DEF Answer
    <2>8. CASE ~ Hit(m, addr) /\ ~ (V(m + 1) < addr)
      <3>1. Turn(addr, f, b) = f[down]
        BY <1>3, <1>1, <2>8 DEF Turn
      <3>2. ASSUME NEW i \in 1 .. NSym, Holds(i, addr), m < i PROVE AnotherStarts(i, addr)
        <4>1. m + 1 < i
          BY <3>2, <2>5, <2>8, <2>1, <1>1, <1>0
        <4>2. i - 1 \in 1 .. NSym /\ m + 1 <= i - 1 /\ i > 1
          BY <4>1, <2>2, <1>0
        <4>3. V(m + 1) <= V(i - 1) /\ V(i - 1) <= V(i)
          BY <4>2, <2>2, <1>0
        <4>4. V(i) <= addr
          BY <3>2, <2>5, Zenon
        <4>5. V(m + 1) \in Nat /\ V(i - 1) \in Nat /\ V(i) \in Nat
          BY <4>2, <2>2, <1>0, Zenon
        <4>6. V(i - 1) = addr
          BY <4>3, <4>4, <4>5, <2>8
        <4> QED  BY <4>2, <4>6, Zenon DEF AnotherStarts
      <3>3. down[1] = l /\ down[2] = m
        BY Zenon
      <3>4. ASSUME NEW i \in 1 .. NSym PROVE i <= m \/ m < i
        BY <2>1, <1>1, <1>0
      <3> QED  BY <3>1, <3>2, <3>3, <3>4, <2>3, <1>0, Zenon DEF Answer
    <2> QED  BY <2>6, <2>7, <2>8, Zenon
  <1> QED  BY <1>2, <1>3, <1>0, <1>1

\* lookup_symbol is right for every address: it finds the symbol that holds it.
LEMMA LookupRight ==
    ASSUME NEW addr \in Nat
    PROVE  Answer(addr, <<0, NSym>>, lookup_symbol(addr))
  <1>0. ASSUME NEW c \in Bounds PROVE c[1] \in Int /\ c[2] \in Int
    <2>1. NSym \in Nat /\ c[1] \in 0 .. NSym /\ c[2] \in 0 .. NSym
      BY MiddleInside, Zenon
    <2> QED  BY <2>1
  <1> DEFINE f == CHOOSE g : IsSearch(addr, g)
  <1>1. IsSearch(addr, f)
    BY SearchExists, Zenon
  <1>2. lookup_symbol(addr) = f[<<0, NSym>>]
    BY Zenon DEF lookup_symbol, IsSearch, Turn, Middle, Bounds, NSym
  <1> HIDE DEF f
  <1>3. \A b \in Bounds : f[b] = Turn(addr, f, b)
    BY <1>1, Zenon DEF IsSearch
  <1> DEFINE Wide(w) == \E b \in Bounds : b[2] - b[1] <= w /\ ~ Answer(addr, b, f[b])
             Bad == {w \in Nat : Wide(w)}
  <1>4. Bad = {}
    <2> SUFFICES ASSUME Bad # {} PROVE FALSE  BY Zenon
    <2>1. PICK w \in Bad : \A v \in Bad : w <= v
      BY LeastNat, Zenon
    <2>2. PICK b \in Bounds : b[2] - b[1] <= w /\ ~ Answer(addr, b, f[b])
      BY <2>1, Zenon
    <2>3. w \in Nat /\ \A v \in Nat : Wide(v) => w <= v
      BY <2>1, Zenon
    <2> HIDE DEF Bad
    <2>4. ASSUME NEW c \in Bounds, c[2] - c[1] < b[2] - b[1] PROVE Answer(addr, c, f[c])
      <3>1. /\ b[1] \in Int /\ b[2] \in Int /\ c[1] \in Int /\ c[2] \in Int
        BY <1>0, Zenon
      <3>2. CASE w = 0
        <4>1. c[1] >= c[2]
          BY <2>2, <2>4, <3>1, <3>2
        <4>2. f[c] = 0
          BY <4>1, <1>3, Zenon DEF Turn
        <4>3. \A i \in DOMAIN symtab : ~ (c[1] < i /\ i <= c[2])
          BY <4>1, <3>1, SymtabFacts
        <4> QED  BY <4>2, <4>3, Zenon DEF Answer
      <3>3. CASE w # 0
        <4>1. w - 1 \in Nat /\ c[2] - c[1] <= w - 1 /\ ~ (w <= w - 1)
          BY <2>2, <2>3, <2>4, <3>1, <3>3
        <4>2. ~ Wide(w - 1)
          BY <2>3, <4>1, Zenon
        <4> QED  BY <4>1, <4>2, Zenon
      <3> QED  BY <3>2, <3>3, Zenon
    <2>5. Answer(addr, b, Turn(addr, f, b))
      BY <2>4, TurnRight, Zenon
    <2> QED  BY <2>2, <2>5, <1>3, Zenon
  <1>5. NSym \in Nat /\ <<0, NSym>> \in Bounds
    BY SymtabFacts DEF Bounds
  <1>6. ~ Wide(NSym)
    BY <1>4, <1>5, Zenon
  <1> QED  BY <1>2, <1>5, <1>6

-----------------------------------------------------------------------------
(* The backtrace of a panic.                                               *)

IsBacktracer(b) == DOMAIN b = {"rbp", "rsp", "trace", "before", "start", "out"}

Frames == [rbp : Nat, rip : Nat, name : Nat]

\* What BacktraceRight says of the n-th frame of a trace, and that it is above rsp.
FrameRight(t, tr, n) ==
    /\ tr[n].rbp = IF n = 1 THEN t.rbp ELSE t.mem[tr[n - 1].rbp]
    /\ tr[n].rbp >= IF n = 1 THEN t.rsp ELSE tr[n - 1].rbp + 2
    /\ tr[n].rbp >= t.rsp
    /\ Mapped(t, tr[n].rbp) /\ Mapped(t, tr[n].rbp + 1)
    /\ tr[n].rip = t.mem[tr[n].rbp + 1]
    /\ IF tr[n].name = 0 THEN \A i \in DOMAIN symtab : Holds(i, tr[n].rip) => AnotherStarts(i, tr[n].rip)
       ELSE Holds(tr[n].name, tr[n].rip)

\* Where the frame behind a trace would be, and above what.
NextFrame(t, tr) == IF tr = <<>> THEN t.rbp ELSE t.mem[tr[Len(tr)].rbp]
Above(t, tr) == IF tr = <<>> THEN t.rsp ELSE tr[Len(tr)].rbp + 2

\* check's reasons to stop.
Stops(t, rbp, rsp) ==
    \/ rbp < rsp
    \/ RoundUpPage(t.rsp) - rbp \in 0 .. 1
    \/ ~ Mapped(t, rbp)

\* While it is printed, the backtracer is at the next frame, or there is none.
TraceInv ==
    /\ session.stack \in Stacks
    /\ IsBacktracer(bt)
    /\ bt.trace \in Seq(Frames)
    /\ \A n \in DOMAIN bt.trace : FrameRight(session.stack, bt.trace, n)
    /\ mode = "panic" =>
        IF bt.rsp = 0 THEN Stops(session.stack, NextFrame(session.stack, bt.trace), Above(session.stack, bt.trace))
        ELSE /\ bt.rbp = NextFrame(session.stack, bt.trace) /\ bt.rbp \in Nat
             /\ ~ Stops(session.stack, bt.rbp, Above(session.stack, bt.trace))
    /\ mode = "fail" => Stops(session.stack, NextFrame(session.stack, bt.trace), Above(session.stack, bt.trace))

\* The words of the mapped pages can be read.
LEMMA ReadMapped ==
    ASSUME NEW t \in Stacks, NEW a \in Nat, Mapped(t, a)
    PROVE  t.mem[a] \in Nat
  <1> DEFINE P == PAGEWORDS
             q == a \div P
  <1>1. P \in Nat \ {0} /\ q \in t.mapped /\ q \in Nat
    BY StacksReadable, Zenon DEF Mapped
  <1>2. a \in q * P .. (q + 1) * P - 1
    <2>1. a % P \in 0 .. P - 1 /\ a = q * P + (a % P)
      BY <1>1, SMT
    <2> HIDE DEF q, P
    <2>2. q * P \in Nat /\ (q + 1) * P = q * P + P
      BY <1>1
    <2> DEFINE qP == q * P
               rest == a % P
    <2>3. qP \in Nat /\ rest \in 0 .. P - 1 /\ a = qP + rest
      BY <2>1, <2>2, Zenon
    <2> HIDE DEF qP, rest
    <2>4. a >= qP /\ a <= qP + P - 1
      BY <2>3, <1>1
    <2> QED  BY <2>2, <2>4, <1>1 DEF qP
  <1> QED  BY <1>1, <1>2, StacksReadable, Zenon

\* Two words that follow each other are in one page, but at the end of it.
LEMMA NextWord ==
    ASSUME NEW a \in Nat, a \div PAGEWORDS # (a + 1) \div PAGEWORDS
    PROVE  (a + 1) % PAGEWORDS = 0
  <1> DEFINE P == PAGEWORDS
  <1>1. P \in Nat \ {0}
    BY StacksReadable, Zenon
  <1> HIDE DEF P
  <1> QED  BY <1>1, Z3T(30) DEF P

\* A frame that check lets pass is above rsp.
LEMMA AboveStack ==
    ASSUME NEW t \in Stacks, NEW tr \in Seq(Frames), \A n \in DOMAIN tr : FrameRight(t, tr, n),
           NEW a \in Nat, ~ (a < Above(t, tr))
    PROVE  a >= t.rsp
  <1>1. t.rsp \in Nat
    BY StacksReadable, Zenon
  <1>2. CASE tr = <<>>
    <2>1. Above(t, tr) = t.rsp
      BY <1>2, Zenon DEF Above
    <2> QED  BY <1>1, <2>1
  <1>3. CASE tr # <<>>
    <2> DEFINE last == tr[Len(tr)]
    <2>1. Len(tr) \in DOMAIN tr /\ last \in Frames
      BY <1>3
    <2>2. last.rbp \in Nat /\ last.rbp >= t.rsp /\ Above(t, tr) = last.rbp + 2
      BY <1>3, <2>1, Zenon DEF Frames, FrameRight, Above
    <2> HIDE DEF last
    <2> QED  BY <1>1, <2>2
  <1> QED  BY <1>2, <1>3, Zenon

\* Up to the top of its page check keeps apart the words that end a page.
LEMMA AboveTop ==
    ASSUME NEW t \in Stacks, NEW a \in Nat, a >= t.rsp, (a + 1) % PAGEWORDS = 0,
           ~ (RoundUpPage(t.rsp) - a \in 0 .. 1)
    PROVE  a > RoundUpPage(t.rsp)
  <1> DEFINE P == PAGEWORDS
             top == RoundUpPage(t.rsp)
             q == (t.rsp + P - 1) \div P
             n == (a + 1) \div P
  <1>1. P \in Nat \ {0} /\ t.rsp \in Nat \ {0}
    BY StacksReadable, Zenon
  <1>2. top = q * P
    BY Zenon DEF RoundUpPage
  <1> HIDE DEF P, top
  <1>3. q \in Nat /\ q * P \in Nat /\ q * P < t.rsp + P
    BY <1>1, Z3T(30)
  <1>4. n \in Nat /\ a + 1 = n * P
    BY <1>1, Z3T(30) DEF P
  <1> HIDE DEF q, n
  <1>5. n * P > (q - 1) * P
    BY <1>1, <1>3, <1>4, Z3T(30)
  <1>6. n >= q
    BY <1>1, <1>3, <1>4, <1>5, Z3T(30)
  <1>7. n * P >= q * P
    BY <1>1, <1>3, <1>4, <1>6, Z3T(30)
  <1>8. top \in Nat /\ a + 1 >= top /\ ~ (top - a \in 0 .. 1)
    BY <1>2, <1>3, <1>4, <1>7, Zenon DEF top
  <1>9. a > top
    BY <1>8
  <1> QED  BY <1>9, Zenon DEF top

\* A frame of a trace stays right when another is put behind it.
LEMMA FramesStay ==
    ASSUME NEW t, NEW tr \in Seq(Frames), NEW e \in Frames, NEW n \in DOMAIN tr, FrameRight(t, tr, n)
    PROVE  FrameRight(t, Append(tr, e), n)
  <1> DEFINE new == Append(tr, e)
  <1>1. Len(tr) \in Nat /\ n \in 1 .. Len(tr) /\ new[n] = tr[n] /\ (n # 1 => new[n - 1] = tr[n - 1])
    OBVIOUS
  <1> HIDE DEF new
  <1>2. FrameRight(t, new, n)
    BY <1>1, Zenon DEF FrameRight
  <1> QED  BY <1>2, Zenon DEF new

\* The backtracer after check.
LEMMA CheckStops ==
    ASSUME NEW t, NEW b, IsBacktracer(b)
    PROVE  /\ IsBacktracer(check(t, b)) /\ check(t, b).trace = b.trace
           /\ IF Stops(t, b.rbp, b.rsp) THEN check(t, b).rsp = 0
              ELSE check(t, b).rbp = b.rbp /\ check(t, b).rsp = b.rsp
  <1>1. CASE Stops(t, b.rbp, b.rsp)
    <2>1. check(t, b) = [b EXCEPT !.rbp = 0, !.rsp = 0]
      BY <1>1, Zenon DEF check, Stops
    <2> QED  BY <1>1, <2>1, Zenon DEF IsBacktracer
  <1>2. CASE ~ Stops(t, b.rbp, b.rsp)
    <2>1. check(t, b) = b
      BY SMTT(30), <1>2 DEF check, Stops
    <2> QED  BY <1>2, <2>1, Zenon
  <1> QED  BY <1>1, <1>2, Zenon

\* A panic starts its backtrace at the registers.
LEMMA ReportTrace ==
    ASSUME TraceInv, mode' = "panic", session' = session, NEW old, NEW start, NEW out,
           Report(old, start, out)
    PROVE  TraceInv'
  <1> DEFINE t == session.stack
             b == [NoTrace EXCEPT !.rbp = t.rbp, !.rsp = t.rsp]
             c == check(t, b)
  <1>1. t \in Stacks /\ t.rsp \in Nat \ {0} /\ t.rbp \in Nat
    BY StacksReadable, Zenon DEF TraceInv
  <1>3. IsBacktracer(b) /\ b.trace = <<>> /\ b.rbp = t.rbp /\ b.rsp = t.rsp
    BY Zenon DEF IsBacktracer, NoTrace
  <1>4. bt' = [c EXCEPT !.before = {old}, !.start = start, !.out = out]
    BY Zenon DEF Report
  <1> HIDE DEF b
  <1>5. /\ IsBacktracer(c) /\ c.trace = <<>>
        /\ IF Stops(t, t.rbp, t.rsp) THEN c.rsp = 0 ELSE c.rbp = t.rbp /\ c.rsp = t.rsp
    BY <1>3, CheckStops
  <1> HIDE DEF c
  <1>7. IsBacktracer(bt') /\ bt'.trace = <<>> /\ bt'.rbp = c.rbp /\ bt'.rsp = c.rsp
    BY <1>4, <1>5, Zenon DEF IsBacktracer
  <1>8. NextFrame(t, bt'.trace) = t.rbp /\ Above(t, bt'.trace) = t.rsp
    BY <1>7, Zenon DEF NextFrame, Above
  <1>9. session'.stack = t
    BY Zenon
  <1> HIDE DEF t
  <1>10. IF bt'.rsp = 0 THEN Stops(t, NextFrame(t, bt'.trace), Above(t, bt'.trace))
         ELSE /\ bt'.rbp = NextFrame(t, bt'.trace) /\ bt'.rbp \in Nat
              /\ ~ Stops(t, bt'.rbp, Above(t, bt'.trace))
    BY <1>1, <1>5, <1>7, <1>8, Zenon
  <1>11. bt'.trace \in Seq(Frames) /\ DOMAIN bt'.trace = {}
    BY <1>7
  <1> QED  BY SMTT(30), <1>1, <1>7, <1>9, <1>10, <1>11 DEF TraceInv

\* A turn of error_print_backtrace's loop records the frame it is at, and goes on
\* to the caller's.
LEMMA FrameTrace ==
    ASSUME TraceInv, error_print_backtrace, bt.rsp # 0
    PROVE  TraceInv'
  <1> DEFINE t == session.stack
             tr == bt.trace
             rip == t.mem[bt.rbp + 1]
             name == lookup_symbol(rip)
             e == [rbp |-> bt.rbp, rip |-> rip, name |-> name]
             b == [bt EXCEPT !.rsp = bt.rbp + 2, !.rbp = t.mem[bt.rbp]]
             c == check(t, b)
             new == Append(tr, e)
  <1>1. /\ mode = "panic" /\ mode' = "panic" /\ session' = session
        /\ \E out : bt' = [c EXCEPT !.trace = new, !.out = out]
    BY Zenon DEF error_print_backtrace, boot_vars, step
  <1>2. /\ t \in Stacks /\ IsBacktracer(bt) /\ tr \in Seq(Frames)
        /\ \A n \in DOMAIN tr : FrameRight(t, tr, n)
        /\ bt.rbp = NextFrame(t, tr) /\ bt.rbp \in Nat /\ ~ Stops(t, bt.rbp, Above(t, tr))
    BY <1>1, Zenon DEF TraceInv
  <1>3. Mapped(t, bt.rbp) /\ Mapped(t, bt.rbp + 1) /\ ~ (bt.rbp < Above(t, tr))
    <2>1. Mapped(t, bt.rbp + 1)
      BY Zenon DEF error_print_backtrace
    <2> QED  BY <2>1, <1>2, Zenon DEF Stops
  <1>4. rip \in Nat /\ t.mem[bt.rbp] \in Nat
    BY <1>2, <1>3, ReadMapped
  <1>5. Answer(rip, <<0, NSym>>, name)
    <2> HIDE DEF rip
    <2> QED  BY <1>4, LookupRight, Zenon
  <1>6. /\ name \in Nat
        /\ IF name = 0 THEN \A i \in DOMAIN symtab : Holds(i, rip) => AnotherStarts(i, rip)
           ELSE Holds(name, rip)
    <2> HIDE DEF rip, name
    <2> QED  BY <1>5, SymtabFacts DEF Answer
  <1>7. e \in Frames /\ e.rbp = bt.rbp /\ e.rip = rip /\ e.name = name
    BY <1>2, <1>4, <1>6, Zenon DEF Frames
  <1>8. b.rbp = t.mem[bt.rbp] /\ b.rsp = bt.rbp + 2 /\ IsBacktracer(b)
    BY <1>2, Zenon DEF IsBacktracer
  <1> HIDE DEF rip, name, e, b
  <1>9. /\ IsBacktracer(c)
        /\ IF Stops(t, b.rbp, b.rsp) THEN c.rsp = 0 ELSE c.rbp = b.rbp /\ c.rsp = b.rsp
    BY SMTT(30), <1>8, CheckStops
  <1> HIDE DEF c
  <1>10. /\ new \in Seq(Frames) /\ Len(new) = Len(tr) + 1 /\ new # <<>> /\ Len(tr) \in Nat
         /\ new[Len(tr) + 1] = e /\ \A n \in 1 .. Len(tr) : new[n] = tr[n]
    BY <1>2, <1>7
  <1>11. /\ IsBacktracer(bt') /\ bt'.trace = new /\ bt'.rbp = c.rbp /\ bt'.rsp = c.rsp
    BY <1>1, <1>9, Zenon DEF IsBacktracer
  <1>12. NextFrame(t, new) = t.mem[bt.rbp] /\ Above(t, new) = bt.rbp + 2
    BY <1>7, <1>10, Zenon DEF NextFrame, Above
  <1>13. FrameRight(t, new, Len(tr) + 1)
    <2> DEFINE N == Len(tr) + 1
    <2>1. new[N] = e
      BY SMTT(30), <1>10
    <2>2. bt.rbp = IF N = 1 THEN t.rbp ELSE t.mem[new[N - 1].rbp]
      BY <1>2, <1>10 DEF NextFrame
    <2>3. /\ bt.rbp >= IF N = 1 THEN t.rsp ELSE new[N - 1].rbp + 2
          /\ bt.rbp >= t.rsp
      <3>1. CASE tr = <<>>
        <4>1. N = 1 /\ Above(t, tr) = t.rsp /\ t.rsp \in Nat
          BY SMTT(30), <3>1, <1>2, StacksReadable DEF Above
        <4> QED  BY <4>1, <1>2, <1>3
      <3>2. CASE tr # <<>>
        <4>1. Len(tr) \in 1 .. Len(tr) /\ N # 1 /\ N - 1 = Len(tr) /\ tr[Len(tr)] \in Frames
          BY <3>2, <1>2
        <4>2. new[N - 1] = tr[Len(tr)] /\ tr[Len(tr)].rbp \in Nat /\ Above(t, tr) = tr[Len(tr)].rbp + 2
          BY <4>1, <3>2, <1>10, Zenon DEF Above, Frames
        <4>3. bt.rbp >= new[N - 1].rbp + 2
          BY <4>1, <4>2, <1>2, <1>3
        <4>4. bt.rbp >= t.rsp
          BY <1>2, <1>3, AboveStack
        <4> QED  BY <4>1, <4>3, <4>4, Zenon
      <3> QED  BY <3>1, <3>2, Zenon
    <2> HIDE DEF N, new
    <2>4. FrameRight(t, new, N)
      BY <2>1, <2>2, <2>3, <1>3, <1>6, <1>7, Zenon DEF FrameRight, rip
    <2> QED  BY <2>4, Zenon DEF N
  <1>14. ASSUME NEW n \in DOMAIN new PROVE FrameRight(t, new, n)
    <2>1. n \in DOMAIN tr \/ n = Len(tr) + 1
      BY <1>10, <1>2
    <2>2. CASE n \in DOMAIN tr
      BY SMTT(30), <2>2, <1>2, <1>7, FramesStay
    <2> QED  BY <2>1, <2>2, <1>13, Zenon
  <1> HIDE DEF new
  <1>15. IF bt'.rsp = 0 THEN Stops(t, NextFrame(t, new), Above(t, new))
         ELSE /\ bt'.rbp = NextFrame(t, new) /\ bt'.rbp \in Nat
              /\ ~ Stops(t, bt'.rbp, Above(t, new))
    <2>1. bt.rbp + 2 # 0
      BY <1>2
    <2> QED  BY <2>1, <1>4, <1>8, <1>9, <1>11, <1>12, Zenon
  <1>16. session'.stack = t
    BY <1>1, Zenon
  <1> HIDE DEF t
  <1> QED  BY <1>1, <1>2, <1>10, <1>11, <1>14, <1>15, <1>16, Zenon DEF TraceInv

\* At the start no backtrace has been taken.
LEMMA TraceInit == Init => TraceInv
  <1> SUFFICES ASSUME Init PROVE TraceInv  BY Zenon
  <1>1. AnyStack \in Stacks
    BY StacksReadable, Zenon DEF AnyStack
  <1>2. session.stack \in Stacks
    BY <1>1, Zenon DEF Init
  <1>3. bt = NoTrace /\ mode = "power"
    BY Zenon DEF Init
  <1>4. IsBacktracer(bt) /\ bt.trace = <<>>
    BY <1>3, Zenon DEF NoTrace, IsBacktracer
  <1> QED  BY <1>2, <1>3, <1>4 DEF TraceInv

\* What does not touch the backtracer, and does not panic.
LEMMA TraceKept ==
    ASSUME TraceInv, session' = session, bt' = bt,
           mode' = mode \/ (mode' # "panic" /\ mode' # "fail")
    PROVE  TraceInv'
  BY Zenon DEF TraceInv

\* What check_keyboard can do to the mode.
LEMMA PollMode ==
    ASSUME NEW next, check_keyboard(next)
    PROVE  session' = session /\ mode' \in {next, "off", "entry"}
  BY Zenon DEF check_keyboard

\* Every step keeps what the backtraces of panics have shown.
LEMMA TraceStep == TraceInv /\ [Next]_vars => TraceInv'
  <1> SUFFICES ASSUME TraceInv, [Next]_vars PROVE TraceInv'  BY Zenon
  <1>1. CASE boot \/ LoadSegment \/ JumpToKernel
    <2>1. session' = session /\ bt' = bt /\ mode' # "panic" /\ mode' # "fail"
      BY SMTT(30), <1>1 DEF boot, LoadSegment, JumpToKernel, Calm
    <2> QED  BY SMTT(30), <2>1, TraceKept
  <1>2. CASE kernel_start
    <2>1. session' = session /\ bt' = NoTrace /\ mode' = "run"
      BY <1>2, Zenon DEF kernel_start
    <2>2. IsBacktracer(bt') /\ bt'.trace = <<>>
      BY <2>1, Zenon DEF NoTrace, IsBacktracer
    <2> QED  BY <2>1, <2>2 DEF TraceInv
  <1>3. CASE \/ PressKey \/ ReleaseKey \/ ByteArrives \/ Begin \/ BeginAssertFail \/ PutNext
             \/ Finish \/ Snprintf \/ UNCHANGED vars
    <2>1. session' = session /\ bt' = bt /\ mode' = mode
      BY <1>3, Zenon DEF PressKey, ReleaseKey, ByteArrives, Begin, BeginAssertFail, PutNext, Finish,
                 Snprintf, vars, boot_vars
    <2> QED  BY <2>1, TraceKept, Zenon
  <1>4. CASE schedule
    <2>1. session' = session /\ bt' = bt /\ mode' \in {"run", "schedule", "off", "entry"}
      BY <1>4, PollMode, Zenon DEF schedule, boot_vars
    <2> QED  BY <2>1, TraceKept, Zenon
  <1>5. CASE Preempt \/ PageFault
    <2>1. bt' = bt /\ \E next \in {"run", "schedule"} : check_keyboard(next)
      BY <1>5, Zenon DEF Preempt, PageFault
    <2>2. session' = session /\ mode' \in {"run", "schedule", "off", "entry"}
      BY <2>1, PollMode, Zenon
    <2> QED  BY <2>1, <2>2, TraceKept, Zenon
  <1>6. CASE Unexpected \/ sys_panic \/ KernelPageFault
    <2>1. session' = session /\ mode' \in {"panic", "off", "entry"}
      BY <1>6, PollMode, Zenon DEF Unexpected, sys_panic, KernelPageFault
    <2>2. CASE mode' = "panic"
      <3>1. \E old, start, out : Report(old, start, out)
        BY <1>6, <2>2, Zenon DEF Unexpected, sys_panic, KernelPageFault, vpanic, assert_fail
      <3> QED  BY <3>1, <2>1, <2>2, ReportTrace, Zenon
    <2>3. CASE mode' # "panic"
      <3>1. bt' = bt
        BY <1>6, <2>3, Zenon DEF Unexpected, sys_panic, KernelPageFault
      <3> QED  BY <3>1, <2>1, <2>3, TraceKept, Zenon
    <2> QED  BY <2>2, <2>3, Zenon
  <1>7. CASE error_print_backtrace
    <2>1. CASE bt.rsp # 0
      BY <1>7, <2>1, FrameTrace, Zenon
    <2>2. CASE bt.rsp = 0
      <3>1. mode = "panic" /\ mode' = "fail" /\ session' = session /\ bt' = bt
        BY <1>7, <2>2, Zenon DEF error_print_backtrace, boot_vars
      <3> QED  BY <3>1, <2>2, Zenon DEF TraceInv
    <2> QED  BY <2>1, <2>2, Zenon
  <1>8. CASE fail
    <2>1. session' = session /\ bt' = bt /\ mode = "fail" /\ mode' \in {"fail", "off", "entry"}
      BY <1>8, PollMode, Zenon DEF fail
    <2> QED  BY <2>1, TraceKept, Zenon
  <1> QED  BY <1>1, <1>2, <1>3, <1>4, <1>5, <1>6, <1>7, <1>8, Zenon DEF Next

\* A panic's backtrace shows the frames of the stack from the registers on, in
\* their order and upwards, stops only where check says so, and names the symbol
\* that holds each return address (backtracer, lookup_symbol), for every stack and
\* every sorted symbol table.  What it reads next is mapped, but for the return
\* address of a frame beyond the top of the stack's page and across the end of a
\* mapped page, of which check's range_perm(16) sees the first word only.
THEOREM BacktraceIsRight == Spec => []BacktraceRight
  <1>1. TraceInv => BacktraceRight
    <2> SUFFICES ASSUME TraceInv PROVE BacktraceRight  BY Zenon
    <2> DEFINE t == session.stack
               tr == bt.trace
    <2>1. /\ t \in Stacks /\ tr \in Seq(Frames) /\ \A n \in DOMAIN tr : FrameRight(t, tr, n)
          /\ mode = "fail" => Stops(t, NextFrame(t, tr), Above(t, tr))
      BY Zenon DEF TraceInv
    <2>2. ASSUME NEW n \in DOMAIN tr, n = Len(tr), mode = "fail"
          PROVE  \/ t.mem[tr[n].rbp] < tr[n].rbp + 2
                 \/ t.mem[tr[n].rbp] \in {RoundUpPage(t.rsp) - 1, RoundUpPage(t.rsp)}
                 \/ ~ Mapped(t, t.mem[tr[n].rbp])
      <3> DEFINE a == t.mem[tr[n].rbp]
                 top == RoundUpPage(t.rsp)
      <3>1. tr # <<>> /\ tr[n].rbp \in Nat /\ FrameRight(t, tr, n)
        <4>1. tr[n] \in Frames /\ FrameRight(t, tr, n)
          BY <2>1
        <4>2. tr # <<>>
          OBVIOUS
        <4> QED  BY <4>1, <4>2, Zenon DEF Frames
      <3>2. a \in Nat
        BY <3>1, <2>1, ReadMapped, Zenon DEF FrameRight
      <3>3. Stops(t, a, tr[n].rbp + 2)
        BY <2>1, <2>2, <3>1, Zenon DEF NextFrame, Above
      <3>4. top \in Int
        <4>1. PAGEWORDS \in Nat \ {0} /\ t.rsp \in Nat
          BY <2>1, StacksReadable, Zenon
        <4>2. t.rsp + PAGEWORDS - 1 \in Nat
          BY <4>1
        <4>3. (t.rsp + PAGEWORDS - 1) \div PAGEWORDS \in Int
          BY <4>1, <4>2
        <4> QED  BY <4>1, <4>3 DEF RoundUpPage
      <3> HIDE DEF a, top
      <3>5. \/ a < tr[n].rbp + 2
            \/ top - a \in 0 .. 1
            \/ ~ Mapped(t, a)
        BY <3>3, Zenon DEF Stops, top
      <3>6. top - a \in 0 .. 1 => a \in {top - 1, top}
        BY <3>2, <3>4
      <3> QED  BY <3>5, <3>6, Zenon DEF a, top
    <2>3. ASSUME mode = "panic", bt.rsp # 0
          PROVE  /\ Mapped(t, bt.rbp)
                 /\ \/ Mapped(t, bt.rbp + 1)
                    \/ bt.rbp > RoundUpPage(t.rsp) /\ (bt.rbp + 1) % PAGEWORDS = 0
      <3>1. bt.rbp \in Nat /\ ~ Stops(t, bt.rbp, Above(t, tr))
        BY <2>3, Zenon DEF TraceInv
      <3>2. /\ ~ (bt.rbp < Above(t, tr)) /\ ~ (RoundUpPage(t.rsp) - bt.rbp \in 0 .. 1)
            /\ Mapped(t, bt.rbp)
        BY <3>1, Zenon DEF Stops
      <3>3. bt.rbp >= t.rsp
        BY <2>1, <3>1, <3>2, AboveStack, Zenon
      <3>4. CASE ~ Mapped(t, bt.rbp + 1)
        <4>1. bt.rbp \div PAGEWORDS # (bt.rbp + 1) \div PAGEWORDS
          BY <3>2, <3>4, Zenon DEF Mapped
        <4>2. (bt.rbp + 1) % PAGEWORDS = 0
          BY <3>1, <4>1, NextWord, Zenon
        <4>3. bt.rbp > RoundUpPage(t.rsp)
          BY <2>1, <3>1, <3>2, <3>3, <4>2, AboveTop, Zenon
        <4> QED  BY <3>2, <4>2, <4>3, Zenon
      <3> QED  BY <3>2, <3>4, Zenon
    <2> QED  BY <2>1, <2>2, <2>3, Zenon DEF BacktraceRight, FrameRight
  <1> QED  BY <1>1, TraceInit, TraceStep, PTL DEF Spec

-----------------------------------------------------------------------------
(* keyboard_readc.                                                         *)

\* The tables have characters for their entries, ...
LEMMA MainLen == Len(Main) = 84
  BY Zenon DEF Main

\* The entries of keymap are bytes.
LEMMA MainRange == \A i \in 1 .. 84 : Main[i] \in 0 .. 255
  BY DEF Main

\* So are those of the escaped codes.
LEMMA EscapedRange == \A e \in Escaped : e[2] \in 0 .. 255
  BY DEF Escaped, CKEY

\* No escaped key has the code 0x2A, which is entry 170 of the keymap.
LEMMA EscapedCode == \A e \in Escaped : e[1] # 170
  BY SMTT(30) DEF Escaped, CKEY

\* Every code has a character or 0.
LEMMA KeymapRange ==
    ASSUME NEW c \in 0 .. 255
    PROVE  keymap[c] \in 0 .. 255
  <1> DEFINE Codes == {e[1] : e \in Escaped}
  <1>0. keymap[c] = CASE c < 84 -> Main[c + 1]
                      [] c \in Codes -> (CHOOSE e \in Escaped : e[1] = c)[2]
                      [] OTHER -> 0
    BY MainLen, Zenon DEF keymap
  <1>4. \A x \in Codes : x >= 84
    BY DEF Escaped
  <1>1. CASE c < 84
    <2>1. c \notin Codes
      BY <1>1, <1>4
    <2>2. keymap[c] = Main[c + 1]
      BY <1>0, <1>1, <2>1, Zenon
    <2>3. c + 1 \in 1 .. 84
      BY <1>1
    <2> QED  BY <2>2, <2>3, MainRange, Zenon
  <1>2. CASE c \in Codes
    <2>1. keymap[c] = (CHOOSE e \in Escaped : e[1] = c)[2]
      BY <1>0, <1>2, <1>4
    <2>2. PICK e \in Escaped : e[1] = c
      BY <1>2, Zenon
    <2> QED  BY <2>1, <2>2, EscapedRange, Zenon
  <1>3. CASE ~ (c < 84) /\ c \notin Codes
    <2>1. keymap[c] = 0
      BY <1>0, <1>3, Zenon
    <2> QED  BY <2>1
  <1> QED  BY SMTT(30), <1>1, <1>2, <1>3

\* The codes with which a key undoes shift mean nothing.
LEMMA Junk == keymap[170] = 0
  BY MainLen, EscapedCode DEF keymap

\* The modifier of a code.
LEMMA BitIs ==
    /\ Bit(250) = "shift" /\ Bit(251) = "control" /\ Bit(252) = "alt"
    /\ Bit(253) = "capslock" /\ Bit(254) = "numlock" /\ Bit(255) = "scrolllock"
  BY DEF Bit, MOD, KEY_SHIFT

\* The user and the kernel agree on the modifiers.
Agree(u, m) ==
    /\ u \in [shift : BOOLEAN, control : BOOLEAN, capslock : BOOLEAN]
    /\ u.shift <=> "shift" \in m
    /\ u.control <=> "control" \in m
    /\ u.capslock <=> "capslock" \in m

\* Which of the four characters of a key is meant.
Column(u, letter) ==
    1 + (IF u.shift # (letter /\ u.capslock) THEN 1 ELSE 0) + (IF u.control THEN 2 ELSE 0)

\* A key gives the character on it that the modifiers select.
LEMMA CharIsLabel ==
    ASSUME NEW m, NEW u, Agree(u, m), NEW ch \in 0 .. 249
    PROVE  Char(m, ch) = Labels(ch)[Column(u, ch \in 97 .. 122)]
  <1> DEFINE shift == "shift" \in m
             control == "control" \in m
             capslock == "capslock" \in m
  <1>0. (u.shift <=> shift) /\ (u.control <=> control) /\ (u.capslock <=> capslock)
        /\ u.shift \in BOOLEAN /\ u.capslock \in BOOLEAN /\ u.control \in BOOLEAN
    BY Zenon DEF Agree
  <1>1. CASE ch \in 97 .. 122
    <2>1. Char(m, ch) = IF control THEN ch - 96 ELSE IF shift # capslock THEN ch - 32 ELSE ch
      BY <1>1 DEF Char, KEY_SHIFT, CKEY
    <2>2. Labels(ch) = <<ch, ch - 32, ch - 96, ch - 96>>
      BY <1>1 DEF Labels, CKEY
    <2>3. Column(u, ch \in 97 .. 122)
            = 1 + (IF shift # capslock THEN 1 ELSE 0) + (IF control THEN 2 ELSE 0)
      BY <1>0, <1>1 DEF Column
    <2> QED  BY <2>1, <2>2, <2>3
  <1>2. CASE ch \in 128 .. 149
    <2>1. Char(m, ch) = complex_keymap[ch - 127][1 + (IF shift THEN 1 ELSE 0) + (IF control THEN 2 ELSE 0)]
      BY <1>2 DEF Char, KEY_SHIFT, CKEY
    <2>2. Labels(ch) = complex_keymap[ch - 127]
      BY <1>2 DEF Labels, CKEY
    <2>3. Column(u, ch \in 97 .. 122) = 1 + (IF shift THEN 1 ELSE 0) + (IF control THEN 2 ELSE 0)
      BY <1>0, <1>2 DEF Column
    <2> QED  BY <2>1, <2>2, <2>3, Zenon
  <1>3. CASE ch \in (0 .. 127) \ (97 .. 122)
    <2>1. Char(m, ch) = IF control THEN 0 ELSE ch
      BY <1>3 DEF Char, KEY_SHIFT, CKEY
    <2>2. Labels(ch) = <<ch, ch, 0, 0>>
      BY <1>3 DEF Labels, CKEY
    <2>3. Column(u, ch \in 97 .. 122) = 1 + (IF shift THEN 1 ELSE 0) + (IF control THEN 2 ELSE 0)
      BY <1>0, <1>3 DEF Column
    <2> QED  BY <2>1, <2>2, <2>3
  <1>4. CASE ch \in 150 .. 249
    <2>1. Char(m, ch) = ch
      BY <1>4 DEF Char, KEY_SHIFT, CKEY
    <2>2. Labels(ch) = <<ch, ch, ch, ch>>
      BY <1>4 DEF Labels, CKEY
    <2>3. Column(u, ch \in 97 .. 122) = 1 + (IF shift THEN 1 ELSE 0) + (IF control THEN 2 ELSE 0)
      BY <1>0, <1>4 DEF Column
    <2> QED  BY <2>1, <2>2, <2>3
  <1> QED  BY <1>1, <1>2, <1>3, <1>4

Mods == {"shift", "control", "alt", "capslock", "numlock", "scrolllock"}
Statuses == [modifiers : SUBSET Mods, last_escape : {0, 128}]

\* The entry of the keyboard's table for a key.
CodeOf(key) == keymap[key.code + (IF key.escape THEN 128 ELSE 0)]

\* What the labels of a key say of its code.
LEMMA KeyFacts ==
    ASSUME NEW key \in Keys
    PROVE  /\ key.code \in 0 .. 127 /\ key.code # 96 /\ key.escape \in BOOLEAN
           /\ CodeOf(key) \in 0 .. 255
           /\ key.mod = IF CodeOf(key) >= 250 THEN Bit(CodeOf(key)) ELSE "none"
           /\ CodeOf(key) < 250 => /\ key.letter = (CodeOf(key) \in 97 .. 122)
                                   /\ key.chars = Labels(CodeOf(key))
  <1>1. Labelled(key)
    BY KeysLabelled, Zenon
  <1>2. key.code \in 0 .. 127 /\ key.code # 96 /\ key.escape \in BOOLEAN
    BY <1>1, Zenon DEF Labelled
  <1>3. key.code + (IF key.escape THEN 128 ELSE 0) \in 0 .. 255
    BY <1>2
  <1>4. CodeOf(key) \in 0 .. 255
    BY <1>3, KeymapRange, Zenon DEF CodeOf
  <1>5. /\ key.mod = IF CodeOf(key) >= 250 THEN Bit(CodeOf(key)) ELSE "none"
        /\ CodeOf(key) < 250 => key.letter = (CodeOf(key) \in 97 .. 122) /\ key.chars = Labels(CodeOf(key))
    <2>1. PICK ch \in {CodeOf(key)} :
            /\ key.mod = IF ch >= KEY_SHIFT THEN Bit(ch) ELSE "none"
            /\ ch < KEY_SHIFT => key.letter = (ch \in 97 .. 122) /\ key.chars = Labels(ch)
      BY <1>1, Zenon DEF Labelled, CodeOf
    <2>2. ch = CodeOf(key)
      BY Zenon
    <2> QED  BY <2>1, <2>2, Zenon DEF KEY_SHIFT
  <1> QED  BY <1>2, <1>4, <1>5, Zenon

\* The modifiers that a code sets or toggles, and the ones that the user means.
LEMMA ModOf ==
    ASSUME NEW key \in Keys
    PROVE  \/ CodeOf(key) < 250 /\ key.mod = "none"
           \/ CodeOf(key) = 250 /\ key.mod = "shift"
           \/ CodeOf(key) = 251 /\ key.mod = "control"
           \/ CodeOf(key) = 252 /\ key.mod = "alt"
           \/ CodeOf(key) = 253 /\ key.mod = "capslock"
           \/ CodeOf(key) = 254 /\ key.mod = "numlock"
           \/ CodeOf(key) = 255 /\ key.mod = "scrolllock"
  <1>1. CodeOf(key) \in 0 .. 255 /\ key.mod = IF CodeOf(key) >= 250 THEN Bit(CodeOf(key)) ELSE "none"
    BY KeyFacts
  <1> SUFFICES ASSUME NEW ch, ch = CodeOf(key), ch \in 0 .. 255,
                      key.mod = IF ch >= 250 THEN Bit(ch) ELSE "none"
               PROVE  \/ ch < 250 /\ key.mod = "none"
                      \/ ch = 250 /\ key.mod = "shift"
                      \/ ch = 251 /\ key.mod = "control"
                      \/ ch = 252 /\ key.mod = "alt"
                      \/ ch = 253 /\ key.mod = "capslock"
                      \/ ch = 254 /\ key.mod = "numlock"
                      \/ ch = 255 /\ key.mod = "scrolllock"
    BY <1>1, Zenon
  <1>2. ch < 250 \/ ch = 250 \/ ch = 251 \/ ch = 252 \/ ch = 253 \/ ch = 254 \/ ch = 255
    OBVIOUS
  <1>3. ch < 250 => key.mod = "none"
    OBVIOUS
  <1>4. ch >= 250 => key.mod = Bit(ch)
    BY Zenon
  <1> QED  BY <1>2, <1>3, <1>4, BitIs

\* What is told to both sides leaves them in agreement; the other modifiers do
\* not matter.
LEMMA AgreeShift ==
    ASSUME NEW u, NEW m, Agree(u, m)
    PROVE  /\ Agree([u EXCEPT !.shift = TRUE], m \cup {"shift"})
           /\ Agree([u EXCEPT !.shift = FALSE], m \ {"shift"})
  BY Zenon DEF Agree

\* The user and the driver go on agreeing on the modifiers: control,
LEMMA AgreeControl ==
    ASSUME NEW u, NEW m, Agree(u, m)
    PROVE  /\ Agree([u EXCEPT !.control = TRUE], m \cup {"control"})
           /\ Agree([u EXCEPT !.control = FALSE], m \ {"control"})
  BY Zenon DEF Agree

\* caps lock,
LEMMA AgreeCapslock ==
    ASSUME NEW u, NEW m, Agree(u, m)
    PROVE  Agree([u EXCEPT !.capslock = ~ @], Toggled(m, "capslock"))
  BY Zenon DEF Agree, Toggled

\* and the ones that change no character.
LEMMA AgreeOther ==
    ASSUME NEW u, NEW m, Agree(u, m), NEW b \in {"alt", "numlock", "scrolllock"}
    PROVE  Agree(u, m \cup {b}) /\ Agree(u, m \ {b}) /\ Agree(u, Toggled(m, b))
  BY Zenon DEF Agree, Toggled

\* The modifiers stay modifiers.
LEMMA ModsStay ==
    ASSUME NEW m \in SUBSET Mods, NEW b \in Mods
    PROVE  m \cup {b} \in SUBSET Mods /\ m \ {b} \in SUBSET Mods /\ Toggled(m, b) \in SUBSET Mods
  BY Zenon DEF Toggled

\* A key that goes down gives the character on it that the modifiers select.
LEMMA PressedChar ==
    ASSUME NEW key \in Keys, NEW u, NEW m, Agree(u, m), NEW e, e = [key |-> key, press |-> TRUE]
    PROVE  Char(m, CodeOf(key)) = Meant(u, e)
  <1>0. e.key = key /\ e.press = TRUE
    BY Zenon
  <1>1. /\ CodeOf(key) \in 0 .. 255
        /\ CodeOf(key) >= 250 => key.mod # "none"
        /\ CodeOf(key) < 250 => key.mod = "none"
        /\ CodeOf(key) < 250 => key.letter = (CodeOf(key) \in 97 .. 122) /\ key.chars = Labels(CodeOf(key))
    <2>1. CodeOf(key) \in 0 .. 255
      BY KeyFacts
    <2>2. /\ CodeOf(key) >= 250 => key.mod # "none"
          /\ CodeOf(key) < 250 => key.mod = "none"
      BY <2>1, ModOf
    <2>3. CodeOf(key) < 250 => key.letter = (CodeOf(key) \in 97 .. 122) /\ key.chars = Labels(CodeOf(key))
      BY KeyFacts
    <2> QED  BY <2>1, <2>2, <2>3, Zenon
  <1>2. SUFFICES ASSUME NEW ch, ch \in 0 .. 255, ch >= 250 => key.mod # "none",
                      ch < 250 => key.mod = "none",
                      ch < 250 => key.letter = (ch \in 97 .. 122),
                      ch < 250 => key.chars = Labels(ch)
               PROVE  Char(m, ch) = Meant(u, e)
    BY <1>1, Zenon
  <1>3. CASE ch < 250
    <2>1. key.mod = "none" /\ ch \in 0 .. 249
      BY <1>2, <1>3
    <2>2. Char(m, ch) = Labels(ch)[Column(u, ch \in 97 .. 122)]
      BY <2>1, CharIsLabel
    <2>3. key.letter = (ch \in 97 .. 122)
      BY <1>2, <1>3, Zenon
    <2>5. key.chars = Labels(ch)
      BY <1>2, <1>3, Zenon
    <2>4. Meant(u, e) = key.chars[Column(u, key.letter)]
      BY <2>1, <1>0, Zenon DEF Meant, Column
    <2> QED  BY <2>2, <2>3, <2>4, <2>5, Zenon
  <1>4. CASE ch >= 250
    <2>1. key.mod # "none"
      BY <1>2, <1>4, Zenon
    <2>2. Meant(u, e) = 0
      BY <2>1, <1>0, Zenon DEF Meant
    <2>3. Char(m, ch) = 0
      BY <1>2, <1>4 DEF Char, KEY_SHIFT, CKEY
    <2> QED  BY <2>2, <2>3, Zenon
  <1>5. ch < 250 \/ ch >= 250
    BY <1>2
  <1> QED  BY <1>3, <1>4, <1>5, Zenon

\* The modifiers n after a code that goes down,
LEMMA PressedMods ==
    ASSUME NEW ch \in 0 .. 255, NEW m, NEW n,
           n = CASE ch >= 253 -> Toggled(m, Bit(ch))
                 [] ch >= 250 /\ ch < 253 -> m \cup {Bit(ch)}
                 [] OTHER -> m
    PROVE  /\ ch < 250 => n = m
           /\ ch = 250 => n = m \cup {"shift"}
           /\ ch = 251 => n = m \cup {"control"}
           /\ ch = 252 => n = m \cup {"alt"}
           /\ ch = 253 => n = Toggled(m, "capslock")
           /\ ch = 254 => n = Toggled(m, "numlock")
           /\ ch = 255 => n = Toggled(m, "scrolllock")
  <1>1. /\ ch >= 253 => n = Toggled(m, Bit(ch))
        /\ ch >= 250 /\ ch < 253 => n = m \cup {Bit(ch)}
        /\ ch < 250 => n = m
    OBVIOUS
  <1> QED  BY <1>1, BitIs

\* and after one that goes up.
LEMMA ReleasedMods ==
    ASSUME NEW ch \in 0 .. 255, NEW m, NEW n,
           n = IF 250 <= ch /\ ch < 253 THEN m \ {Bit(ch)} ELSE m
    PROVE  /\ ch < 250 \/ ch >= 253 => n = m
           /\ ch = 250 => n = m \ {"shift"}
           /\ ch = 251 => n = m \ {"control"}
           /\ ch = 252 => n = m \ {"alt"}
  <1>1. /\ ch >= 250 /\ ch < 253 => n = m \ {Bit(ch)}
        /\ ch < 250 \/ ch >= 253 => n = m
    BY SMTT(30)
  <1> QED  BY <1>1, BitIs

\* A key that goes down.
LEMMA PressRight ==
    ASSUME NEW kb \in Statuses, NEW u, Agree(u, kb.modifiers), NEW key \in Keys, NEW e,
           e = [key |-> key, press |-> TRUE]
    PROVE  /\ Char(kb.modifiers, CodeOf(key)) = Meant(u, e)
           /\ Pressed(kb, CodeOf(key)) \in Statuses
           /\ Pressed(kb, CodeOf(key)).last_escape = 0
           /\ Agree(Modified(u, e), Pressed(kb, CodeOf(key)).modifiers)
  <1> DEFINE ch == CodeOf(key)
             m == kb.modifiers
             new == CASE ch >= 253 -> Toggled(m, Bit(ch))
                      [] ch >= 250 /\ ch < 253 -> m \cup {Bit(ch)}
                      [] OTHER -> m
  <1>0. ch \in 0 .. 255 /\ e.key = key /\ e.press = TRUE /\ m \in SUBSET Mods
    BY KeyFacts, Zenon DEF Statuses
  <1>00. Agree(u, m)
    BY Zenon
  <1>1. Pressed(kb, ch) = [kb EXCEPT !.last_escape = 0, !.modifiers = new]
    BY Zenon DEF Pressed, KEY_SHIFT, KEY_CAPSLOCK
  <1>2. Char(m, ch) = Meant(u, e)
    BY <1>00, PressedChar, Zenon
  <1>3. new \in SUBSET Mods /\ Agree(Modified(u, e), new)
    <2> SUFFICES ASSUME NEW w, w = Modified(u, e), NEW n, n = new
                 PROVE  n \in SUBSET Mods /\ Agree(w, n)
      BY Zenon
    <2>0. w = CASE key.mod = "shift" -> [u EXCEPT !.shift = TRUE]
                [] key.mod = "control" -> [u EXCEPT !.control = TRUE]
                [] key.mod = "capslock" -> [u EXCEPT !.capslock = ~ @]
                [] OTHER -> u
      BY <1>0, Zenon DEF Modified
    <2>00. /\ ch < 250 => n = m
           /\ ch = 250 => n = m \cup {"shift"}
           /\ ch = 251 => n = m \cup {"control"}
           /\ ch = 252 => n = m \cup {"alt"}
           /\ ch = 253 => n = Toggled(m, "capslock")
           /\ ch = 254 => n = Toggled(m, "numlock")
           /\ ch = 255 => n = Toggled(m, "scrolllock")
      BY <1>0, PressedMods
    <2> HIDE DEF new, ch, m
    <2>1. CASE ch < 250 /\ key.mod = "none"
      <3>1. n = m /\ w = u
        BY <2>0, <2>00, <2>1, Zenon
      <3> QED  BY <3>1, <1>0, <1>00, Zenon
    <2>2. CASE ch = 250 /\ key.mod = "shift"
      <3>1. n = m \cup {"shift"}
        BY <2>00, <2>2, Zenon
      <3>2. w = [u EXCEPT !.shift = TRUE]
        BY <2>0, <2>2, Zenon
      <3>3. "shift" \in Mods
        BY Zenon DEF Mods
      <3>4. n \in SUBSET Mods
        BY <3>1, <3>3, <1>0, ModsStay, Zenon
      <3>5. Agree([u EXCEPT !.shift = TRUE], m \cup {"shift"})
        BY <1>00, AgreeShift, Zenon
      <3> QED  BY <3>1, <3>2, <3>4, <3>5, Zenon
    <2>3. CASE ch = 251 /\ key.mod = "control"
      <3>1. n = m \cup {"control"}
        BY <2>00, <2>3, Zenon
      <3>2. w = [u EXCEPT !.control = TRUE]
        BY <2>0, <2>3, Zenon
      <3>3. "control" \in Mods
        BY Zenon DEF Mods
      <3>4. n \in SUBSET Mods
        BY <3>1, <3>3, <1>0, ModsStay, Zenon
      <3>5. Agree([u EXCEPT !.control = TRUE], m \cup {"control"})
        BY <1>00, AgreeControl, Zenon
      <3> QED  BY <3>1, <3>2, <3>4, <3>5, Zenon
    <2>4. CASE ch = 252 /\ key.mod = "alt"
      <3>1. n = m \cup {"alt"}
        BY <2>00, <2>4, Zenon
      <3>2. w = u
        BY <2>0, <2>4, Zenon
      <3>3. "alt" \in Mods
        BY Zenon DEF Mods
      <3>4. n \in SUBSET Mods
        BY <3>1, <3>3, <1>0, ModsStay, Zenon
      <3>5. Agree(u, m \cup {"alt"})
        BY <1>00, AgreeOther, Zenon
      <3> QED  BY <3>1, <3>2, <3>4, <3>5, Zenon
    <2>5. CASE ch = 253 /\ key.mod = "capslock"
      <3>1. n = Toggled(m, "capslock")
        BY <2>00, <2>5, Zenon
      <3>2. w = [u EXCEPT !.capslock = ~ @]
        BY <2>0, <2>5, Zenon
      <3>3. "capslock" \in Mods
        BY Zenon DEF Mods
      <3>4. n \in SUBSET Mods
        BY <3>1, <3>3, <1>0, ModsStay, Zenon
      <3>5. Agree([u EXCEPT !.capslock = ~ @], Toggled(m, "capslock"))
        BY <1>00, AgreeCapslock, Zenon
      <3> QED  BY <3>1, <3>2, <3>4, <3>5, Zenon
    <2>6. CASE ch = 254 /\ key.mod = "numlock"
      <3>1. n = Toggled(m, "numlock")
        BY <2>00, <2>6, Zenon
      <3>2. w = u
        BY <2>0, <2>6, Zenon
      <3>3. "numlock" \in Mods
        BY Zenon DEF Mods
      <3>4. n \in SUBSET Mods
        BY <3>1, <3>3, <1>0, ModsStay, Zenon
      <3>5. Agree(w, n)
        BY <3>1, <3>2, <1>00, AgreeOther, ZenonT(30)
      <3> QED  BY <3>4, <3>5, Zenon
    <2>7. CASE ch = 255 /\ key.mod = "scrolllock"
      <3>1. n = Toggled(m, "scrolllock")
        BY <2>00, <2>7, Zenon
      <3>2. w = u
        BY <2>0, <2>7, Zenon
      <3>3. "scrolllock" \in Mods
        BY Zenon DEF Mods
      <3>4. n \in SUBSET Mods
        BY <3>1, <3>3, <1>0, ModsStay, Zenon
      <3>5. Agree(w, n)
        BY <3>1, <3>2, <1>00, AgreeOther, Zenon
      <3> QED  BY <3>4, <3>5, Zenon
    <2>8. \/ ch < 250 /\ key.mod = "none"
          \/ ch = 250 /\ key.mod = "shift"
          \/ ch = 251 /\ key.mod = "control"
          \/ ch = 252 /\ key.mod = "alt"
          \/ ch = 253 /\ key.mod = "capslock"
          \/ ch = 254 /\ key.mod = "numlock"
          \/ ch = 255 /\ key.mod = "scrolllock"
      BY ModOf, Zenon DEF ch
    <2> QED  BY <2>1, <2>2, <2>3, <2>4, <2>5, <2>6, <2>7, <2>8, PTL
  <1> HIDE DEF new, ch
  <1>4. /\ Pressed(kb, ch) \in Statuses /\ Pressed(kb, ch).last_escape = 0
        /\ Pressed(kb, ch).modifiers = new
    <2> DEFINE M == SUBSET Mods
    <2>1. kb \in [modifiers : M, last_escape : {0, 128}] /\ new \in M
      BY <1>3, Zenon DEF Statuses
    <2> HIDE DEF M
    <2>2. /\ [kb EXCEPT !.last_escape = 0, !.modifiers = new] \in [modifiers : M, last_escape : {0, 128}]
          /\ [kb EXCEPT !.last_escape = 0, !.modifiers = new].last_escape = 0
          /\ [kb EXCEPT !.last_escape = 0, !.modifiers = new].modifiers = new
      BY <2>1, Zenon
    <2> QED  BY <1>1, <2>2, Zenon DEF Statuses, M
  <1> QED  BY <1>2, <1>3, <1>4, Zenon DEF ch

\* A key that goes up.
LEMMA ReleaseRight ==
    ASSUME NEW kb \in Statuses, NEW u, Agree(u, kb.modifiers), NEW key \in Keys, NEW e,
           e = [key |-> key, press |-> FALSE], NEW data,
           keymap[(data - 128) + kb.last_escape] = CodeOf(key)
    PROVE  /\ Release(kb, data) \in Statuses
           /\ Release(kb, data).last_escape = 0
           /\ Agree(Modified(u, e), Release(kb, data).modifiers)
  <1> DEFINE ch == CodeOf(key)
             m == kb.modifiers
             new == IF 250 <= ch /\ ch < 253 THEN m \ {Bit(ch)} ELSE m
  <1>0. ch \in 0 .. 255 /\ e.key = key /\ e.press = FALSE /\ m \in SUBSET Mods
    BY KeyFacts, Zenon DEF Statuses
  <1>00. Agree(u, m)
    BY Zenon
  <1>1. Release(kb, data) = [kb EXCEPT !.last_escape = 0, !.modifiers = new]
    BY Zenon DEF Release, KEY_SHIFT, KEY_CAPSLOCK
  <1>2. new \in SUBSET Mods /\ Agree(Modified(u, e), new)
    <2> SUFFICES ASSUME NEW w, w = Modified(u, e), NEW n, n = new
                 PROVE  n \in SUBSET Mods /\ Agree(w, n)
      BY ZenonT(30)
    <2>0. w = CASE key.mod = "shift" -> [u EXCEPT !.shift = FALSE]
                [] key.mod = "control" -> [u EXCEPT !.control = FALSE]
                [] OTHER -> u
      BY <1>0, Zenon DEF Modified
    <2>000. ch \in 0 .. 255 /\ n = IF 250 <= ch /\ ch < 253 THEN m \ {Bit(ch)} ELSE m
      BY <1>0, Zenon DEF new
    <2> HIDE DEF new, ch, m
    <2>00. /\ ch < 250 \/ ch >= 253 => n = m
           /\ ch = 250 => n = m \ {"shift"}
           /\ ch = 251 => n = m \ {"control"}
           /\ ch = 252 => n = m \ {"alt"}
      <3> SUFFICES ASSUME NEW c \in 0 .. 255, c = ch, NEW l, l = m,
                          n = IF 250 <= c /\ c < 253 THEN l \ {Bit(c)} ELSE l
                   PROVE  /\ c < 250 \/ c >= 253 => n = l
                          /\ c = 250 => n = l \ {"shift"}
                          /\ c = 251 => n = l \ {"control"}
                          /\ c = 252 => n = l \ {"alt"}
        BY <2>000, Zenon
      <3> QED  BY ReleasedMods
    <2>1. CASE /\ ch < 250 \/ ch >= 253
               /\ key.mod \notin {"shift", "control"}
      <3>1. n = m /\ w = u
        BY <2>0, <2>00, <2>1, Zenon
      <3> QED  BY <3>1, <1>0, <1>00
    <2>2. CASE ch = 250 /\ key.mod = "shift"
      <3>1. n = m \ {"shift"}
        BY <2>00, <2>2, Zenon
      <3>2. w = [u EXCEPT !.shift = FALSE]
        BY <2>0, <2>2, Zenon
      <3>3. n \in SUBSET Mods
        BY <3>1, <1>0, Zenon
      <3>4. Agree([u EXCEPT !.shift = FALSE], m \ {"shift"})
        BY <1>00, AgreeShift, Zenon
      <3> QED  BY <3>1, <3>2, <3>3, <3>4, Zenon
    <2>3. CASE ch = 251 /\ key.mod = "control"
      <3>1. n = m \ {"control"}
        BY <2>00, <2>3, Zenon
      <3>2. w = [u EXCEPT !.control = FALSE]
        BY <2>0, <2>3, Zenon
      <3>3. n \in SUBSET Mods
        BY <3>1, <1>0, Zenon
      <3>4. Agree([u EXCEPT !.control = FALSE], m \ {"control"})
        BY <1>00, AgreeControl, Zenon
      <3> QED  BY <3>1, <3>2, <3>3, <3>4, Zenon
    <2>4. CASE ch = 252 /\ key.mod = "alt"
      <3>1. n = m \ {"alt"}
        BY <2>00, <2>4, Zenon
      <3>2. w = u
        BY <2>0, <2>4, Zenon
      <3>3. n \in SUBSET Mods
        BY <3>1, <1>0, Zenon
      <3>4. Agree(u, m \ {"alt"})
        BY <1>00, AgreeOther, Zenon
      <3> QED  BY <3>1, <3>2, <3>3, <3>4, Zenon
    <2>5. \/ /\ ch < 250 \/ ch >= 253
             /\ key.mod \notin {"shift", "control"}
          \/ ch = 250 /\ key.mod = "shift"
          \/ ch = 251 /\ key.mod = "control"
          \/ ch = 252 /\ key.mod = "alt"
      BY <1>0, ModOf DEF ch
    <2> QED  BY <2>1, <2>2, <2>3, <2>4, <2>5, Zenon
  <1> HIDE DEF new, ch
  <1>3. /\ Release(kb, data) \in Statuses /\ Release(kb, data).last_escape = 0
        /\ Release(kb, data).modifiers = new
    <2> DEFINE M == SUBSET Mods
    <2>1. kb \in [modifiers : M, last_escape : {0, 128}] /\ new \in M
      BY <1>2, Zenon DEF Statuses
    <2> HIDE DEF M
    <2>2. /\ [kb EXCEPT !.last_escape = 0, !.modifiers = new] \in [modifiers : M, last_escape : {0, 128}]
          /\ [kb EXCEPT !.last_escape = 0, !.modifiers = new].last_escape = 0
          /\ [kb EXCEPT !.last_escape = 0, !.modifiers = new].modifiers = new
      BY <2>1, Zenon
    <2> QED  BY <1>1, <2>2, Zenon DEF Statuses, M
  <1> QED  BY <1>2, <1>3, Zenon

\* A byte on its way: 0xE0, the last byte of a key's code, behind 0xE0 if the key
\* has it, or the code that undoes shift.
Entry(e, escape) ==
    \/ e.byte = 224 /\ e.event = {}
    \/ \E key \in Keys, press \in BOOLEAN :
        /\ e.event = {[key |-> key, press |-> press]}
        /\ e.byte = IF press THEN key.code ELSE key.code + 128
        /\ escape = IF key.escape THEN 128 ELSE 0
    \/ e.byte \in {42, 170} /\ e.event = {} /\ escape = 128

\* What the user means by the byte, and has told of the modifiers with it.
MeantBy(u, e) == IF e.event = {} THEN 0 ELSE Meant(u, CHOOSE x \in e.event : TRUE)
ToldBy(u, e) == IF e.event = {} THEN u ELSE Modified(u, CHOOSE x \in e.event : TRUE)

\* The result r of keyboard_readc is what the user means, and knows the modifiers
\* and whether the next byte is escaped.
ReadsAs(u, e, r) ==
    /\ r.c = MeantBy(u, e) /\ r.k \in Statuses
    /\ r.k.last_escape = IF e.byte = 224 THEN 128 ELSE 0
    /\ Agree(ToldBy(u, e), r.k.modifiers)
    /\ e.byte = 224 => r.c = 0

\* keyboard_readc reads a byte as the user means it.
LEMMA ReadRight ==
    ASSUME NEW kb \in Statuses, NEW u, Agree(u, kb.modifiers), NEW e, NEW bytes,
           bytes # <<>>, Head(bytes) = e.byte, Entry(e, kb.last_escape)
    PROVE  ReadsAs(u, e, keyboard_readc(kb, bytes))
  <1> SUFFICES ASSUME NEW r, r = keyboard_readc(kb, bytes), NEW data, data = e.byte
               PROVE  /\ r.c = MeantBy(u, e) /\ r.k \in Statuses
                      /\ r.k.last_escape = IF data = 224 THEN 128 ELSE 0
                      /\ Agree(ToldBy(u, e), r.k.modifiers)
                      /\ data = 224 => r.c = 0
    BY DEF ReadsAs
  <1> DEFINE ch == keymap[(data % 128) + kb.last_escape]
  <1>1. r = CASE data = 224 -> [c |-> 0, k |-> [kb EXCEPT !.last_escape = 128]]
              [] data # 224 /\ data >= 128 -> [c |-> 0, k |-> Release(kb, data)]
              [] OTHER -> [c |-> Char(kb.modifiers, ch), k |-> Pressed(kb, ch)]
    BY Zenon DEF keyboard_readc
  <1>2. kb.last_escape \in {0, 128} /\ kb.modifiers \in SUBSET Mods /\ data = e.byte
    BY SMTT(30) DEF Statuses
  <1>3. CASE data = 224 /\ e.event = {}
    <2>1. r = [c |-> 0, k |-> [kb EXCEPT !.last_escape = 128]]
      BY <1>1, <1>3, Zenon
    <2>2. /\ [kb EXCEPT !.last_escape = 128] \in Statuses
          /\ [kb EXCEPT !.last_escape = 128].last_escape = 128
          /\ [kb EXCEPT !.last_escape = 128].modifiers = kb.modifiers
      <3> DEFINE M == SUBSET Mods
      <3>1. kb \in [modifiers : M, last_escape : {0, 128}]
        BY Zenon DEF Statuses
      <3> HIDE DEF M
      <3>2. /\ [kb EXCEPT !.last_escape = 128] \in [modifiers : M, last_escape : {0, 128}]
            /\ [kb EXCEPT !.last_escape = 128].last_escape = 128
            /\ [kb EXCEPT !.last_escape = 128].modifiers = kb.modifiers
        BY <3>1, Zenon
      <3> QED  BY <3>2, Zenon DEF M, Statuses
    <2> DEFINE new == [kb EXCEPT !.last_escape = 128]
    <2>3. r.c = 0 /\ r.k = new
      BY SMTT(30), <2>1
    <2>4. MeantBy(u, e) = 0 /\ ToldBy(u, e) = u
      BY <1>3, Zenon DEF MeantBy, ToldBy
    <2>5. new \in Statuses /\ new.last_escape = 128 /\ new.modifiers = kb.modifiers
      BY <2>2, Zenon
    <2> HIDE DEF new
    <2> QED  BY <1>3, <2>3, <2>4, <2>5, Zenon
  <1>4. ASSUME NEW key \in Keys, e.event = {[key |-> key, press |-> TRUE]}, data = key.code,
               kb.last_escape = IF key.escape THEN 128 ELSE 0
        PROVE  /\ r.c = MeantBy(u, e) /\ r.k \in Statuses /\ r.k.last_escape = 0 /\ data # 224
               /\ Agree(ToldBy(u, e), r.k.modifiers)
    <2>0. data = key.code
      BY <1>4, Zenon
    <2>1. data \in 0 .. 127
      BY <2>0, KeyFacts
    <2>2. data % 128 = key.code /\ data # 224 /\ ~ (data >= 128)
      <3>1. ASSUME NEW d \in 0 .. 127 PROVE d % 128 = d /\ d # 224 /\ ~ (d >= 128)
        OBVIOUS
      <3> QED  BY <2>0, <2>1, <3>1, Zenon
    <2>3. kb.last_escape = IF key.escape THEN 128 ELSE 0
      BY <1>4, <1>2, Zenon
    <2>4. ch = CodeOf(key)
      BY <2>2, <2>3, Zenon DEF CodeOf
    <2>5. r = [c |-> Char(kb.modifiers, CodeOf(key)), k |-> Pressed(kb, CodeOf(key))]
      BY SMTT(30), <1>1, <2>2, <2>4
    <2>6. (CHOOSE x \in e.event : TRUE) = [key |-> key, press |-> TRUE] /\ e.event # {}
      BY <1>4, Zenon
    <2> DEFINE x == [key |-> key, press |-> TRUE]
    <2>7. MeantBy(u, e) = Meant(u, x) /\ ToldBy(u, e) = Modified(u, x)
      BY <2>6, Zenon DEF MeantBy, ToldBy
    <2>8. /\ Char(kb.modifiers, CodeOf(key)) = Meant(u, x)
          /\ Pressed(kb, CodeOf(key)) \in Statuses
          /\ Pressed(kb, CodeOf(key)).last_escape = 0
          /\ Agree(Modified(u, x), Pressed(kb, CodeOf(key)).modifiers)
      <3> HIDE DEF x
      <3>1. x = [key |-> key, press |-> TRUE]
        BY Zenon DEF x
      <3> QED  BY <3>1, PressRight
    <2> HIDE DEF x
    <2> QED  BY <2>2, <2>5, <2>7, <2>8
  <1>5. ASSUME NEW key \in Keys, e.event = {[key |-> key, press |-> FALSE]}, data = key.code + 128,
               kb.last_escape = IF key.escape THEN 128 ELSE 0
        PROVE  /\ r.c = MeantBy(u, e) /\ r.k \in Statuses /\ r.k.last_escape = 0 /\ data # 224
               /\ Agree(ToldBy(u, e), r.k.modifiers)
    <2>1. key.code \in 0 .. 127 /\ key.code # 96
      BY KeyFacts
    <2>0. data = key.code + 128
      BY <1>5, Zenon
    <2>2. data - 128 = key.code /\ data # 224 /\ data >= 128
      <3>1. ASSUME NEW d \in 0 .. 127, d # 96
            PROVE  (d + 128) - 128 = d /\ d + 128 # 224 /\ d + 128 >= 128
        BY <3>1
      <3>2. (key.code + 128) - 128 = key.code /\ key.code + 128 # 224 /\ key.code + 128 >= 128
        BY <2>1, <3>1, ZenonT(30)
      <3> QED  BY <2>0, <3>2, Zenon
    <2>3. kb.last_escape = IF key.escape THEN 128 ELSE 0
      BY <1>5, <1>2, Zenon
    <2>4. keymap[(data - 128) + kb.last_escape] = CodeOf(key)
      BY <2>2, <2>3, Zenon DEF CodeOf
    <2>5. r = [c |-> 0, k |-> Release(kb, data)]
      BY <1>1, <2>2, Zenon
    <2>6. (CHOOSE x \in e.event : TRUE) = [key |-> key, press |-> FALSE] /\ e.event # {}
      BY <1>5, Zenon
    <2> DEFINE x == [key |-> key, press |-> FALSE]
    <2>7. MeantBy(u, e) = Meant(u, x) /\ ToldBy(u, e) = Modified(u, x)
      BY <2>6, Zenon DEF MeantBy, ToldBy
    <2>8. Meant(u, x) = 0
      BY Zenon DEF Meant
    <2>9. /\ Release(kb, data) \in Statuses
          /\ Release(kb, data).last_escape = 0
          /\ Agree(Modified(u, x), Release(kb, data).modifiers)
      <3> HIDE DEF x
      <3>1. x = [key |-> key, press |-> FALSE]
        BY SMTT(30) DEF x
      <3> QED  BY <3>1, <2>4, ReleaseRight, ZenonT(60)
    <2> HIDE DEF x
    <2> QED  BY <2>2, <2>5, <2>7, <2>8, <2>9
  <1>6. CASE data \in {42, 170} /\ e.event = {} /\ kb.last_escape = 128
    <2>1. MeantBy(u, e) = 0 /\ ToldBy(u, e) = u
      BY <1>6, Zenon DEF MeantBy, ToldBy
    <2>2. keymap[42 + 128] = 0
      BY Junk
    <2>3. [kb EXCEPT !.last_escape = 0, !.modifiers = kb.modifiers] \in Statuses
          /\ [kb EXCEPT !.last_escape = 0, !.modifiers = kb.modifiers].last_escape = 0
          /\ [kb EXCEPT !.last_escape = 0, !.modifiers = kb.modifiers].modifiers = kb.modifiers
      <3> DEFINE M == SUBSET Mods
      <3>1. kb \in [modifiers : M, last_escape : {0, 128}]
        BY Zenon DEF Statuses
      <3> HIDE DEF M
      <3>2. [kb EXCEPT !.last_escape = 0, !.modifiers = kb.modifiers] \in [modifiers : M, last_escape : {0, 128}]
            /\ [kb EXCEPT !.last_escape = 0, !.modifiers = kb.modifiers].last_escape = 0
            /\ [kb EXCEPT !.last_escape = 0, !.modifiers = kb.modifiers].modifiers = kb.modifiers
        BY <3>1, Zenon
      <3> QED  BY <3>2, Zenon DEF M, Statuses
    <2> DEFINE new == [kb EXCEPT !.last_escape = 0, !.modifiers = kb.modifiers]
    <2> HIDE DEF new
    <2>33. new \in Statuses /\ new.last_escape = 0 /\ new.modifiers = kb.modifiers
      BY SMTT(30), <2>3 DEF new
    <2>4. CASE data = 170
      <3>1. r = [c |-> 0, k |-> Release(kb, data)]
        BY SMTT(30), <1>1, <2>4
      <3>2. keymap[(data - 128) + kb.last_escape] = 0
        BY <2>2, <2>4, <1>6
      <3>3. Release(kb, data) = new
        BY <3>2 DEF Release, KEY_SHIFT, KEY_CAPSLOCK, new
      <3>4. r.c = 0 /\ r.k = new
        BY SMTT(30), <3>1, <3>3
      <3> QED  BY <2>1, <2>33, <2>4, <3>4
    <2>5. CASE data = 42
      <3>1. ch = 0
        BY <2>2, <2>5, <1>6
      <3>2. r = [c |-> Char(kb.modifiers, 0), k |-> Pressed(kb, 0)]
        BY <1>1, <2>5, <3>1
      <3>3. Char(kb.modifiers, 0) = 0
        BY DEF Char, KEY_SHIFT, CKEY
      <3>4. Pressed(kb, 0) = new
        BY DEF Pressed, KEY_SHIFT, KEY_CAPSLOCK, new
      <3>5. r.c = 0 /\ r.k = new
        BY <3>2, <3>3, <3>4
      <3> QED  BY SMTT(30), <2>1, <2>33, <2>5, <3>5
    <2>6. data = 42 \/ data = 170
      BY <1>6, Zenon
    <2> QED  BY <2>4, <2>5, <2>6, ZenonT(30)
  <1>7. \/ data = 224 /\ e.event = {}
        \/ \E key \in Keys : /\ e.event = {[key |-> key, press |-> TRUE]} /\ data = key.code
                             /\ kb.last_escape = IF key.escape THEN 128 ELSE 0
        \/ \E key \in Keys : /\ e.event = {[key |-> key, press |-> FALSE]} /\ data = key.code + 128
                             /\ kb.last_escape = IF key.escape THEN 128 ELSE 0
        \/ data \in {42, 170} /\ e.event = {} /\ kb.last_escape = 128
    <2>1. ASSUME NEW key \in Keys, NEW press \in BOOLEAN,
                 e.event = {[key |-> key, press |-> press]},
                 data = IF press THEN key.code ELSE key.code + 128
          PROVE  \/ e.event = {[key |-> key, press |-> TRUE]} /\ data = key.code
                 \/ e.event = {[key |-> key, press |-> FALSE]} /\ data = key.code + 128
      <3>1. CASE press = TRUE
        BY <2>1, <3>1, Zenon
      <3>2. CASE press = FALSE
        BY <2>1, <3>2, Zenon
      <3> QED  BY <3>1, <3>2, Zenon
    <2>2. \/ data = 224 /\ e.event = {}
          \/ \E key \in Keys, press \in BOOLEAN :
                /\ e.event = {[key |-> key, press |-> press]}
                /\ data = IF press THEN key.code ELSE key.code + 128
                /\ kb.last_escape = IF key.escape THEN 128 ELSE 0
          \/ data \in {42, 170} /\ e.event = {} /\ kb.last_escape = 128
      BY Zenon DEF Entry
    <2> QED  BY <2>1, <2>2, Zenon
  <1> QED  BY <1>3, <1>4, <1>5, <1>6, <1>7, ZenonT(30)

-----------------------------------------------------------------------------
\* The bytes on their way.  A queue q of them is sound, the first one escaped or
\* not, if each follows its 0xE0 or needs none, and the last one is no 0xE0.
Sent == [byte : 0 .. 255, event : SUBSET [key : Keys, press : BOOLEAN]]

After(e) == IF e.byte = 224 THEN 128 ELSE 0

OnWay(q, escape) ==
    /\ q \in Seq(Sent)
    /\ \A i \in 1 .. Len(q) : Entry(q[i], IF i = 1 THEN escape ELSE After(q[i - 1]))
    /\ IF q = <<>> THEN escape = 0 ELSE q[Len(q)].byte # 224

\* Reading the first byte of a sound queue leaves a sound queue.
LEMMA OnWayTail ==
    ASSUME NEW q, NEW escape, OnWay(q, escape), q # <<>>
    PROVE  Entry(q[1], escape) /\ OnWay(Tail(q), After(q[1]))
  <1> DEFINE S == Sent
             E(e, x) == Entry(e, x)
             r == Tail(q)
  <1>1. q \in Seq(S) /\ Len(q) \in Nat \ {0}
    BY DEF OnWay
  <1>2. \A i \in 1 .. Len(q) : E(q[i], IF i = 1 THEN escape ELSE After(q[i - 1]))
    BY Zenon DEF OnWay
  <1>3. q[Len(q)].byte # 224
    BY Zenon DEF OnWay
  <1> HIDE DEF S, E
  <1>4. r \in Seq(S) /\ Len(r) = Len(q) - 1 /\ \A i \in 1 .. Len(r) : r[i] = q[i + 1]
    BY <1>1
  <1>5. E(q[1], escape)
    BY <1>1, <1>2
  <1> HIDE DEF r
  <1>6. ASSUME NEW i \in 1 .. Len(r)
        PROVE  E(r[i], IF i = 1 THEN After(q[1]) ELSE After(r[i - 1]))
    <2>1. i + 1 \in 1 .. Len(q) /\ i + 1 # 1 /\ (i + 1) - 1 = i
      BY <1>1, <1>4
    <2>2. E(q[i + 1], After(q[i]))
      <3>1. E(q[i + 1], IF i + 1 = 1 THEN escape ELSE After(q[(i + 1) - 1]))
        BY <1>2, <2>1, Zenon
      <3> QED  BY <2>1, <3>1, Zenon
    <2>3. r[i] = q[i + 1]
      BY <1>4, Zenon
    <2>4. CASE i = 1
      BY <2>2, <2>3, <2>4, Zenon
    <2>5. CASE i # 1
      <3>1. i - 1 \in 1 .. Len(r) /\ (i - 1) + 1 = i
        BY <1>1, <1>4, <2>5
      <3>2. r[i - 1] = q[i]
        BY <1>4, <3>1, Zenon
      <3> QED  BY <2>2, <2>3, <2>5, <3>2, Zenon
    <2> QED  BY <2>4, <2>5, Zenon
  <1>7. IF r = <<>> THEN After(q[1]) = 0 ELSE r[Len(r)].byte # 224
    <2>1. CASE r = <<>>
      <3>1. Len(q) = 1
        BY <2>1, <1>1, <1>4
      <3> QED  BY <2>1, <3>1, <1>3, Zenon DEF After
    <2>2. CASE r # <<>>
      <3>1. Len(r) \in 1 .. Len(r) /\ Len(r) + 1 = Len(q)
        BY <2>2, <1>1, <1>4
      <3> QED  BY <2>2, <3>1, <1>3, <1>4
    <2> QED  BY <2>1, <2>2, Zenon
  <1> QED  BY <1>4, <1>5, <1>6, <1>7, Zenon DEF OnWay, S, E, r

\* The parts of two sequences, one behind the other.
LEMMA Joined ==
    ASSUME NEW S, NEW q \in Seq(S), NEW r \in Seq(S)
    PROVE  /\ q \o r \in Seq(S)
           /\ Len(q \o r) = Len(q) + Len(r)
           /\ \A i \in 1 .. Len(q) : (q \o r)[i] = q[i]
           /\ \A i \in 1 .. Len(r) : (q \o r)[Len(q) + i] = r[i]
  OBVIOUS

\* Another sound queue can follow.
LEMMA OnWayJoined ==
    ASSUME NEW q, NEW r, NEW escape, OnWay(q, escape), OnWay(r, 0)
    PROVE  OnWay(q \o r, escape)
  <1> DEFINE S == Sent
             E(e, x) == Entry(e, x)
             w == q \o r
  <1>1. q \in Seq(S) /\ r \in Seq(S) /\ Len(q) \in Nat /\ Len(r) \in Nat
    BY DEF OnWay
  <1>2. \A i \in 1 .. Len(q) : E(q[i], IF i = 1 THEN escape ELSE After(q[i - 1]))
    BY Zenon DEF OnWay
  <1>3. \A i \in 1 .. Len(r) : E(r[i], IF i = 1 THEN 0 ELSE After(r[i - 1]))
    BY Zenon DEF OnWay
  <1>4. /\ IF q = <<>> THEN escape = 0 ELSE q[Len(q)].byte # 224
        /\ r # <<>> => r[Len(r)].byte # 224
    BY Zenon DEF OnWay
  <1> HIDE DEF S, E
  <1>5. w \in Seq(S)
    BY <1>1, Joined, Zenon
  <1>6. Len(w) = Len(q) + Len(r)
    BY <1>1, Joined, Zenon
  <1>7. \A i \in 1 .. Len(q) : w[i] = q[i]
    BY <1>1, Joined, Zenon
  <1>8. \A i \in 1 .. Len(r) : w[Len(q) + i] = r[i]
    BY <1>1, Joined
  <1>9. Len(q) = 0 <=> q = <<>>
    BY <1>1
  <1>10. Len(r) = 0 <=> r = <<>>
    BY <1>1
  <1>11. Len(w) = 0 <=> w = <<>>
    BY <1>5
  <1> HIDE DEF w
  <1>12. ASSUME NEW i \in 1 .. Len(w)
         PROVE  E(w[i], IF i = 1 THEN escape ELSE After(w[i - 1]))
    <2>1. CASE i <= Len(q)
      <3>1. i \in 1 .. Len(q) /\ (i # 1 => i - 1 \in 1 .. Len(q))
        BY <2>1, <1>1
      <3> QED  BY <3>1, <1>2, <1>7, Zenon
    <2>2. CASE i > Len(q)
      <3>1. PICK j \in 1 .. Len(r) : i = Len(q) + j
        <4>1. i - Len(q) \in 1 .. Len(r) /\ i = Len(q) + (i - Len(q))
          BY <2>2, <1>1, <1>6
        <4> QED  BY <4>1, Zenon
      <3>2. w[i] = r[j]
        BY <3>1, <1>8, Zenon
      <3>3. CASE j # 1
        <4>1. j - 1 \in 1 .. Len(r) /\ i - 1 = Len(q) + (j - 1) /\ i # 1
          BY <3>1, <3>3, <1>1
        <4>2. w[i - 1] = r[j - 1]
          BY <4>1, <1>8, Zenon
        <4> QED  BY <3>2, <3>3, <4>1, <4>2, <1>3, Zenon
      <3>4. CASE j = 1
        <4>1. E(w[i], 0)
          BY <3>2, <3>4, <1>3, Zenon
        <4>2. CASE q = <<>>
          <5>1. i = 1 /\ escape = 0
            BY <3>1, <3>4, <4>2, <1>4
          <5> QED  BY <4>1, <5>1, Zenon
        <4>3. CASE q # <<>>
          <5>1. i # 1 /\ i - 1 = Len(q) /\ Len(q) \in 1 .. Len(q)
            BY <3>1, <3>4, <4>3, <1>1, <1>9
          <5>2. After(w[i - 1]) = 0
            BY <5>1, <4>3, <1>4, <1>7 DEF After
          <5> QED  BY <4>1, <5>1, <5>2, Zenon
        <4> QED  BY <4>2, <4>3, Zenon
      <3> QED  BY <3>3, <3>4, Zenon
    <2> QED  BY SMTT(30), <2>1, <2>2, <1>1, <1>6
  <1>13. IF w = <<>> THEN escape = 0 ELSE w[Len(w)].byte # 224
    <2>1. CASE r # <<>>
      <3>1. Len(r) \in 1 .. Len(r) /\ Len(w) # 0
        BY <2>1, <1>1, <1>6, <1>10
      <3> QED  BY <2>1, <3>1, <1>4, <1>6, <1>8, <1>11
    <2>2. CASE r = <<>> /\ q # <<>>
      <3>1. Len(q) \in 1 .. Len(q) /\ Len(w) = Len(q)
        BY <2>2, <1>1, <1>6, <1>9, <1>10
      <3> QED  BY <2>2, <3>1, <1>1, <1>4, <1>7, <1>11
    <2>3. CASE r = <<>> /\ q = <<>>
      BY <2>3, <1>4, <1>6, <1>9, <1>10, <1>11
    <2> QED  BY <2>1, <2>2, <2>3, Zenon
  <1> QED  BY <1>5, <1>12, <1>13, Zenon DEF OnWay, S, E, w

\* The bytes of a key, the last one of its code at place last: each is the key's
\* code, behind 0xE0 if the key has it, or 0xE0, or a shift code behind 0xE0.
Place(b, last, key, press, i) ==
    \/ /\ i = last
       /\ b[i] = IF press THEN key.code ELSE key.code + 128
       /\ IF key.escape THEN i # 1 /\ b[i - 1] = 224 ELSE i = 1 \/ b[i - 1] # 224
    \/ i # last /\ b[i] = 224
    \/ i # last /\ b[i] \in {42, 170} /\ i # 1 /\ b[i - 1] = 224

Shape(b, last, key, press) ==
    /\ b \in Seq(0 .. 255) /\ Len(b) > 0 /\ b[Len(b)] # 224
    /\ \A i \in 1 .. Len(b) : Place(b, last, key, press, i)

\* Such bytes are sound, each with its event.
LEMMA ShapeOnWay ==
    ASSUME NEW key \in Keys, NEW press \in BOOLEAN, NEW b, NEW last, Shape(b, last, key, press),
           NEW w, w = [i \in DOMAIN b |->
                          [byte |-> b[i],
                           event |-> IF i = last THEN {[key |-> key, press |-> press]} ELSE {}]]
    PROVE  OnWay(w, 0)
  <1> DEFINE x == [key |-> key, press |-> press]
             X == [key : Keys, press : BOOLEAN]
  <1>1. x \in X
    BY Zenon
  <1>2. b \in Seq(0 .. 255) /\ Len(b) \in Nat \ {0} /\ DOMAIN b = 1 .. Len(b) /\ b[Len(b)] # 224
    BY DEF Shape
  <1> HIDE DEF x, X
  <1>3. w = [i \in 1 .. Len(b) |-> [byte |-> b[i], event |-> IF i = last THEN {x} ELSE {}]]
    BY <1>2, Zenon DEF x
  <1>4. /\ w \in Seq([byte : 0 .. 255, event : SUBSET X]) /\ Len(w) = Len(b)
        /\ \A i \in 1 .. Len(b) : /\ w[i].byte = b[i]
                                  /\ w[i].event = IF i = last THEN {x} ELSE {}
    <2> DEFINE P == SUBSET X
               R == [byte : 0 .. 255, event : P]
               ev(i) == IF i = last THEN {x} ELSE {}
               tag(i) == [byte |-> b[i], event |-> ev(i)]
    <2>0. \A i \in 1 .. Len(b) : ev(i) \in P /\ b[i] \in 0 .. 255
      <3>1. {x} \in P /\ {} \in P
        BY <1>1, Zenon
      <3>2. ASSUME NEW B, b \in Seq(B) PROVE \A i \in 1 .. Len(b) : b[i] \in B
        BY <3>2
      <3>3. \A i \in 1 .. Len(b) : b[i] \in 0 .. 255
        BY <1>2, <3>2, Zenon
      <3> QED  BY <3>1, <3>3, Zenon
    <2>00. w = [i \in 1 .. Len(b) |-> tag(i)]
      BY <1>3, Zenon
    <2> HIDE DEF P, ev
    <2>1. \A i \in 1 .. Len(b) : tag(i) \in R /\ tag(i).byte = b[i] /\ tag(i).event = ev(i)
      BY <2>0, Zenon
    <2> HIDE DEF tag, R
    <2>2. w \in [1 .. Len(b) -> R]
      BY <2>1, <2>00, Zenon
    <2>3. \A i \in 1 .. Len(b) : w[i].byte = b[i] /\ w[i].event = IF i = last THEN {x} ELSE {}
      BY <2>1, <2>00, Zenon DEF ev
    <2>4. w \in Seq(R) /\ Len(w) = Len(b)
      BY SMTT(30), <2>2, <1>2
    <2> QED  BY <2>3, <2>4, Zenon DEF R, P
  <1>5. ASSUME NEW i \in 1 .. Len(b)
        PROVE  Entry(w[i], IF i = 1 THEN 0 ELSE After(w[i - 1]))
    <2> DEFINE escape == IF i = 1 THEN 0 ELSE After(w[i - 1])
    <2>0. i # 1 => i - 1 \in 1 .. Len(b)
      BY <1>2
    <2>1. escape = IF i # 1 /\ b[i - 1] = 224 THEN 128 ELSE 0
      <3>1. CASE i = 1
        BY <3>1, Zenon
      <3>2. CASE i # 1
        <4>1. w[i - 1].byte = b[i - 1]
          BY <3>2, <2>0, <1>4, Zenon
        <4> QED  BY <3>2, <4>1, ZenonT(30) DEF After
      <3> QED  BY <3>1, <3>2, Zenon
    <2> HIDE DEF escape
    <2>2. \/ /\ i = last
             /\ b[i] = IF press THEN key.code ELSE key.code + 128
             /\ IF key.escape THEN i # 1 /\ b[i - 1] = 224 ELSE i = 1 \/ b[i - 1] # 224
          \/ i # last /\ b[i] = 224
          \/ i # last /\ b[i] \in {42, 170} /\ i # 1 /\ b[i - 1] = 224
      BY SMTT(30) DEF Shape, Place
    <2>3. w[i].byte = b[i] /\ w[i].event = IF i = last THEN {x} ELSE {}
      BY <1>4, Zenon
    <2>4. CASE /\ i = last
               /\ b[i] = IF press THEN key.code ELSE key.code + 128
               /\ IF key.escape THEN i # 1 /\ b[i - 1] = 224 ELSE i = 1 \/ b[i - 1] # 224
      <3>1. w[i].event = {[key |-> key, press |-> press]}
        BY <2>3, <2>4, Zenon DEF x
      <3>2. w[i].byte = IF press THEN key.code ELSE key.code + 128
        BY <2>3, <2>4, Zenon
      <3>3. escape = IF key.escape THEN 128 ELSE 0
        BY <2>1, <2>4, Zenon
      <3>4. Entry(w[i], escape)
        BY <3>1, <3>2, <3>3, Zenon DEF Entry
      <3> QED  BY <3>4, Zenon DEF escape
    <2>5. CASE i # last /\ b[i] = 224
      <3>1. Entry(w[i], escape)
        BY <2>3, <2>5, Zenon DEF Entry
      <3> QED  BY <3>1, Zenon DEF escape
    <2>6. CASE i # last /\ b[i] \in {42, 170} /\ i # 1 /\ b[i - 1] = 224
      <3>1. Entry(w[i], escape)
        BY <2>1, <2>3, <2>6, Zenon DEF Entry
      <3> QED  BY <3>1, Zenon DEF escape
    <2> QED  BY <2>2, <2>4, <2>5, <2>6, Zenon
  <1>6. w # <<>> /\ w[Len(w)].byte # 224
    BY <1>2, <1>4
  <1>7. w \in Seq(Sent)
    BY <1>4, Zenon DEF Sent, X
  <1> QED  BY <1>4, <1>5, <1>6, <1>7, Zenon DEF OnWay

\* A key's code, alone.
LEMMA CodeShape ==
    ASSUME NEW key \in Keys, NEW press \in BOOLEAN, NEW code, code = Code(key, press)
    PROVE  /\ code \in Seq(0 .. 255) /\ Len(code) = IF key.escape THEN 2 ELSE 1
           /\ code[Len(code)] = IF press THEN key.code ELSE key.code + 128
           /\ code[Len(code)] # 224
           /\ key.escape => code[1] = 224
  <1>1. key.code \in 0 .. 127 /\ key.code # 96 /\ key.escape \in BOOLEAN
    BY KeyFacts
  <1> DEFINE byte == IF press THEN key.code ELSE key.code + 128
  <1>2. byte \in 0 .. 255 /\ byte # 224
    BY <1>1
  <1>3. code = (IF key.escape THEN <<224>> ELSE <<>>) \o <<byte>>
    BY Zenon DEF Code
  <1> HIDE DEF byte
  <1>4. CASE key.escape
    <2>1. code = <<224>> \o <<byte>>
      BY <1>3, <1>4, Zenon
    <2>2. code \in Seq(0 .. 255) /\ Len(code) = 2 /\ code[1] = 224 /\ code[2] = byte
      BY <2>1, <1>2
    <2> QED  BY <2>2, <1>2, <1>4 DEF byte
  <1>5. CASE ~ key.escape
    <2>1. code = <<>> \o <<byte>>
      BY <1>3, <1>5, Zenon
    <2>2. code \in Seq(0 .. 255) /\ Len(code) = 1 /\ code[1] = byte
      BY <2>1, <1>2
    <2> QED  BY <2>2, <1>2, <1>5 DEF byte
  <1> QED  BY <1>4, <1>5, Zenon

\* What a key sends: its code, with the codes that undo shift before or behind.
LEMMA SendsShape ==
    ASSUME NEW key \in Keys, NEW press \in BOOLEAN, NEW code, code = Code(key, press),
           NEW b, b = Sends(key, press)
    PROVE  Shape(b, IF press THEN Len(b) ELSE Len(code), key, press)
  <1> DEFINE last == IF press THEN Len(b) ELSE Len(code)
             Byte == 0 .. 255
  <1>0. key.escape \in BOOLEAN
    BY KeyFacts, Zenon
  <1>1. /\ code \in Seq(Byte) /\ Len(code) = IF key.escape THEN 2 ELSE 1
        /\ code[Len(code)] = IF press THEN key.code ELSE key.code + 128
        /\ code[Len(code)] # 224
        /\ key.escape => code[1] = 224
    BY CodeShape
  <1>11. code \in Seq(Byte)
    BY <1>1, Zenon
  <1>2. <<>> \in Seq(Byte) /\ <<224, 170>> \in Seq(Byte) /\ <<224, 42>> \in Seq(Byte)
    OBVIOUS
  <1>3. b = ((IF press /\ ShiftUndone(key) THEN <<224, 170>> ELSE <<>>) \o code)
            \o (IF ~ press /\ ShiftUndone(key) THEN <<224, 42>> ELSE <<>>)
    BY Zenon DEF Sends
  <1> HIDE DEF Byte
  <1>4. CASE ~ ShiftUndone(key)
    <2>1. b = (<<>> \o code) \o <<>>
      BY <1>3, <1>4, Zenon
    <2>2. b = code
      BY <2>1, <1>1
    <2> QED  BY <2>2, <1>0, <1>1 DEF Shape, Place, Byte
  <1>5. CASE press /\ ShiftUndone(key)
    <2> DEFINE a == <<224, 170>>
    <2>0. a \in Seq(Byte)
      BY <1>2, Zenon
    <2>1. a \in Seq(Byte) /\ Len(a) = 2 /\ a[1] = 224 /\ a[2] = 170
      BY <1>2, Zenon
    <2>2. b = (a \o code) \o <<>>
      BY <1>3, <1>5, Zenon
    <2> HIDE DEF a
    <2>3. a \o code \in Seq(Byte)
      BY <1>11, <2>0, Joined, Zenon
    <2>4. b = a \o code
      BY <2>2, <2>3
    <2>5. Len(b) = Len(a) + Len(code)
      BY <1>11, <2>0, <2>4, Joined, Zenon
    <2>6. \A i \in 1 .. Len(a) : b[i] = a[i]
      BY <1>11, <2>0, <2>4, Joined
    <2>7. \A i \in 1 .. Len(code) : b[Len(a) + i] = code[i]
      BY <1>11, <2>0, <2>4, Joined
    <2>8. b[1] = 224 /\ b[2] = 170
      BY <2>1, <2>6
    <2>9. \A i \in 1 .. Len(code) : b[2 + i] = code[i]
      BY <2>1, <2>7
    <2>10. b \in Seq(0 .. 255) /\ Len(b) > 0
      BY <1>1, <2>1, <2>3, <2>4, <2>5 DEF Byte
    <2>11. CASE key.escape
      <3>0. Len(b) = 4 /\ last = Len(b)
        BY <2>1, <2>5, <2>11, <1>1, <1>5
      <3>1. Len(b) = 4 /\ last = 4 /\ b[3] = 224 /\ b[4] = IF press THEN key.code ELSE key.code + 128
        <4> HIDE DEF last
        <4> QED  BY <3>0, <2>9, <2>11, <1>1
      <3>2. b[4] # 224
        BY <2>9, <2>11, <1>1
      <3>3. \A i \in 1 .. Len(b) : i = 1 \/ i = 2 \/ i = 3 \/ i = 4
        BY <3>1
      <3> HIDE DEF last
      <3>4. ASSUME NEW i \in 1 .. Len(b) PROVE Place(b, last, key, press, i)
        <4>1. CASE i = 1
          <5>1. i = 1 /\ i - 1 = 0
            BY <4>1
          <5> QED  BY <5>1, <3>1, <3>2, <2>8, <2>11, ZenonT(60) DEF Place
        <4>2. CASE i = 2
          <5>1. i = 2 /\ i - 1 = 1
            BY <4>2
          <5> QED  BY <5>1, <3>1, <3>2, <2>8, <2>11 DEF Place
        <4>3. CASE i = 3
          <5>1. i = 3 /\ i - 1 = 2
            BY <4>3
          <5> QED  BY <5>1, <3>1, <3>2, <2>8, <2>11, ZenonT(60) DEF Place
        <4>4. CASE i = 4
          <5>1. i = 4 /\ i - 1 = 3
            BY <4>4
          <5> QED  BY <5>1, <3>1, <3>2, <2>8, <2>11 DEF Place
        <4> QED  BY SMTT(30), <3>3, <4>1, <4>2, <4>3, <4>4
      <3>5. b[Len(b)] # 224
        BY <3>1, <3>2, Zenon
      <3> QED  BY <3>4, <3>5, <2>10, Zenon DEF Shape, last
    <2>12. CASE ~ key.escape
      <3>0. Len(b) = 3 /\ last = Len(b)
        BY <2>1, <2>5, <2>12, <1>1, <1>5
      <3>1. Len(b) = 3 /\ last = 3 /\ b[3] = IF press THEN key.code ELSE key.code + 128
        <4> HIDE DEF last
        <4> QED  BY <3>0, <2>9, <2>12, <1>1
      <3>2. b[3] # 224
        BY <2>9, <2>12, <1>1
      <3>3. \A i \in 1 .. Len(b) : i = 1 \/ i = 2 \/ i = 3
        BY <3>1
      <3> HIDE DEF last
      <3>4. ASSUME NEW i \in 1 .. Len(b) PROVE Place(b, last, key, press, i)
        <4>1. CASE i = 1
          <5>1. i = 1 /\ i - 1 = 0
            BY <4>1
          <5> QED  BY <5>1, <3>1, <3>2, <2>8, <2>12, Zenon DEF Place
        <4>2. CASE i = 2
          <5>1. i = 2 /\ i - 1 = 1
            BY <4>2
          <5> QED  BY <5>1, <3>1, <3>2, <2>8, <2>12 DEF Place
        <4>3. CASE i = 3
          <5>1. i = 3 /\ i - 1 = 2
            BY <4>3
          <5> QED  BY <5>1, <3>1, <3>2, <2>8, <2>12 DEF Place
        <4> QED  BY <3>3, <4>1, <4>2, <4>3, Zenon
      <3>5. b[Len(b)] # 224
        BY <3>1, <3>2, Zenon
      <3> QED  BY <3>4, <3>5, <2>10, Zenon DEF Shape, last
    <2> QED  BY <2>11, <2>12, Zenon
  <1>6. CASE ~ press /\ ShiftUndone(key)
    <2> DEFINE a == <<224, 42>>
    <2>0. a \in Seq(Byte)
      BY <1>2, Zenon
    <2>1. a \in Seq(Byte) /\ Len(a) = 2 /\ a[1] = 224 /\ a[2] = 42
      BY <1>2, Zenon
    <2>2. b = (<<>> \o code) \o a
      BY <1>3, <1>6, Zenon
    <2> HIDE DEF a
    <2>3. b = code \o a
      BY <2>2, <1>1
    <2>4. b \in Seq(Byte)
      BY <1>11, <2>0, <2>3, Joined, Zenon
    <2>5. Len(b) = Len(code) + Len(a)
      BY SMTT(30), <1>11, <2>0, <2>3, Joined
    <2>6. \A i \in 1 .. Len(code) : b[i] = code[i]
      BY SMTT(30), <1>11, <2>0, <2>3, Joined
    <2>7. \A i \in 1 .. Len(a) : b[Len(code) + i] = a[i]
      BY <1>11, <2>0, <2>3, Joined
    <2>8. b[Len(code) + 1] = 224 /\ b[Len(code) + 2] = 42
      BY <2>1, <2>7
    <2>9. b \in Seq(0 .. 255) /\ Len(b) > 0
      BY <1>1, <2>1, <2>4, <2>5 DEF Byte
    <2>10. CASE key.escape
      <3>1. /\ Len(b) = 4 /\ b[1] = 224 /\ b[2] = IF press THEN key.code ELSE key.code + 128
            /\ b[3] = 224 /\ b[4] = 42 /\ last = 2
        BY SMTT(30), <2>1, <2>5, <2>6, <2>8, <2>10, <1>1, <1>6
      <3>2. b[2] # 224
        BY <2>6, <2>10, <1>1
      <3>3. \A i \in 1 .. Len(b) : i = 1 \/ i = 2 \/ i = 3 \/ i = 4
        BY SMTT(30), <3>1
      <3> HIDE DEF last
      <3>4. ASSUME NEW i \in 1 .. Len(b) PROVE Place(b, last, key, press, i)
        <4>1. CASE i = 1
          <5>1. i = 1 /\ i - 1 = 0
            BY <4>1
          <5> QED  BY <5>1, <3>1, <3>2, Zenon DEF Place
        <4>2. CASE i = 2
          <5>1. i = 2 /\ i - 1 = 1
            BY <4>2
          <5> QED  BY <5>1, <3>1, <3>2, <2>10 DEF Place
        <4>3. CASE i = 3
          <5>1. i = 3 /\ i - 1 = 2
            BY <4>3
          <5> QED  BY <5>1, <3>1, <3>2, ZenonT(60) DEF Place
        <4>4. CASE i = 4
          <5>1. i = 4 /\ i - 1 = 3
            BY <4>4
          <5> QED  BY <5>1, <3>1, <3>2 DEF Place
        <4> QED  BY <3>3, <4>1, <4>2, <4>3, <4>4, Zenon
      <3>5. b[Len(b)] # 224
        BY SMTT(30), <3>1
      <3> QED  BY <3>4, <3>5, <2>9, Zenon DEF Shape, last
    <2>11. CASE ~ key.escape
      <3>1. /\ Len(b) = 3 /\ b[1] = IF press THEN key.code ELSE key.code + 128
            /\ b[2] = 224 /\ b[3] = 42 /\ last = 1
        BY SMTT(30), <2>1, <2>5, <2>6, <2>8, <2>11, <1>1, <1>6
      <3>2. b[1] # 224
        BY <2>6, <2>11, <1>1
      <3>3. \A i \in 1 .. Len(b) : i = 1 \/ i = 2 \/ i = 3
        BY <3>1
      <3> HIDE DEF last
      <3>4. ASSUME NEW i \in 1 .. Len(b) PROVE Place(b, last, key, press, i)
        <4>1. CASE i = 1
          <5>1. i = 1 /\ i - 1 = 0
            BY <4>1
          <5> QED  BY <5>1, <3>1, <3>2, <2>11, Zenon DEF Place
        <4>2. CASE i = 2
          <5>1. i = 2 /\ i - 1 = 1
            BY <4>2
          <5> QED  BY <5>1, <3>1, <3>2, <2>11, ZenonT(60) DEF Place
        <4>3. CASE i = 3
          <5>1. i = 3 /\ i - 1 = 2
            BY <4>3
          <5> QED  BY <5>1, <3>1, <3>2, <2>11 DEF Place
        <4> QED  BY <3>3, <4>1, <4>2, <4>3, Zenon
      <3>5. b[Len(b)] # 224
        BY <3>1
      <3> QED  BY <3>4, <3>5, <2>9, Zenon DEF Shape, last
    <2> QED  BY <2>10, <2>11, Zenon
  <1> QED  BY <1>4, <1>5, <1>6, Zenon

\* A key's bytes are sound behind whatever is sound.
LEMMA SendOnWay ==
    ASSUME NEW key \in Keys, NEW press \in BOOLEAN, Send(key, press)
    PROVE  wire = <<>> /\ OnWay(wire', 0)
  <1>1. PICK b \in {Sends(key, press)}, code \in {Code(key, press)} :
          /\ wire = <<>>
          /\ wire' = [i \in DOMAIN b |->
                 [byte |-> b[i],
                  event |-> IF i = (IF press THEN Len(b) ELSE Len(code))
                            THEN {[key |-> key, press |-> press]} ELSE {}]]
    BY Zenon DEF Send, NoEvent
  <1>2. b = Sends(key, press) /\ code = Code(key, press)
    BY Zenon
  <1>3. PICK last \in {IF press THEN Len(b) ELSE Len(code)} : TRUE
    BY Zenon
  <1>4. last = IF press THEN Len(b) ELSE Len(code)
    BY Zenon
  <1>5. Shape(b, last, key, press)
    BY <1>2, <1>4, SendsShape, Zenon
  <1>6. wire' = [i \in DOMAIN b |->
                    [byte |-> b[i],
                     event |-> IF i = last THEN {[key |-> key, press |-> press]} ELSE {}]]
    BY <1>1, <1>4, Zenon
  <1>7. ASSUME NEW w, w = [i \in DOMAIN b |->
                              [byte |-> b[i],
                               event |-> IF i = last THEN {[key |-> key, press |-> press]} ELSE {}]]
        PROVE  OnWay(w, 0)
    BY <1>5, <1>7, ShapeOnWay
  <1>8. OnWay(wire', 0)
    BY <1>6, <1>7, ZenonT(30)
  <1> QED  BY <1>1, <1>8, Zenon

-----------------------------------------------------------------------------
(* keyboard_readc, from one call to the next.  The inductive invariant:      *)
(* keyboard_readc's modifiers are the ones that the user means, and the      *)
(* bytes at the port and on the wire are sound behind what it has read.      *)

KbdInv ==
    /\ k \in Statuses
    /\ Agree(user, k.modifiers)
    /\ held \subseteq Keys
    /\ port \in Seq(Sent) /\ wire \in Seq(Sent)
    /\ OnWay(port \o wire, k.last_escape)
    /\ KeysRight

\* keyboard_readc starts with no modifier and no byte.
LEMMA KbdInit == Init => KbdInv
  <1> SUFFICES ASSUME Init PROVE KbdInv  BY Zenon
  <1>1. k = Statics /\ wire = <<>> /\ port = <<>> /\ held = {} /\ user = NoModifiers
        /\ heard = [c |-> -1, typed |-> -1]
    BY Zenon DEF Init
  <1>2. Statics \in Statuses /\ Statics.modifiers = {} /\ Statics.last_escape = 0
    BY Zenon DEF Statics, Statuses
  <1>3. Agree(NoModifiers, {})
    BY Zenon DEF Agree, NoModifiers
  <1>4. <<>> \in Seq(Sent)
    OBVIOUS
  <1>5. <<>> \o <<>> = <<>>
    OBVIOUS
  <1>6. OnWay(<<>>, 0)
    BY <1>4 DEF OnWay
  <1>7. KeysRight
    BY <1>1, Zenon DEF KeysRight
  <1>8. port \o wire = <<>> /\ k.last_escape = 0 /\ k.modifiers = {}
    BY SMTT(30), <1>1, <1>2, <1>5
  <1> QED  BY SMTT(30), <1>1, <1>2, <1>3, <1>4, <1>6, <1>7, <1>8 DEF KbdInv

\* A key goes down or up.
LEMMA SendKbd ==
    ASSUME KbdInv, NEW key \in Keys, NEW press \in BOOLEAN, Send(key, press),
           held' \subseteq Keys, UNCHANGED <<k, port, user, heard>>
    PROVE  KbdInv'
  <1>1. wire = <<>> /\ OnWay(wire', 0)
    BY SendOnWay, Zenon
  <1>2. port \in Seq(Sent) /\ OnWay(port \o wire, k.last_escape)
    BY Zenon DEF KbdInv
  <1>3. port \o <<>> = port
    BY <1>2
  <1>4. OnWay(port, k.last_escape)
    BY <1>1, <1>2, <1>3, Zenon
  <1>5. OnWay(port \o wire', k.last_escape)
    BY SMTT(30), <1>1, <1>4, OnWayJoined
  <1>6. wire' \in Seq(Sent)
    BY <1>1, Zenon DEF OnWay
  <1> QED  BY <1>5, <1>6, Zenon DEF KbdInv, KeysRight

\* A byte comes to the port.
LEMMA ArriveKbd == ASSUME KbdInv, ByteArrives PROVE KbdInv'
  <1>1. wire # <<>> /\ port' = Append(port, Head(wire)) /\ wire' = Tail(wire)
        /\ UNCHANGED <<k, held, user, heard>>
    BY Zenon DEF ByteArrives
  <1>2. port \in Seq(Sent) /\ wire \in Seq(Sent)
    BY Zenon DEF KbdInv
  <1>3. ASSUME NEW S, NEW p \in Seq(S), NEW w \in Seq(S), w # <<>>
        PROVE  /\ Append(p, Head(w)) \in Seq(S) /\ Tail(w) \in Seq(S)
               /\ Append(p, Head(w)) \o Tail(w) = p \o w
    <2>1. Head(w) \in S /\ Tail(w) \in Seq(S) /\ Append(p, Head(w)) \in Seq(S)
      BY <1>3
    <2>2. Append(p, Head(w)) \o Tail(w) = p \o w
      BY <1>3
    <2> QED  BY <2>1, <2>2, Zenon
  <1>4. port' \in Seq(Sent) /\ wire' \in Seq(Sent) /\ port' \o wire' = port \o wire
    BY <1>1, <1>2, <1>3
  <1> QED  BY <1>1, <1>4, Zenon DEF KbdInv, KeysRight

\* The kernel polls the keyboard.
LEMMA PollKbd == ASSUME KbdInv, NEW next, check_keyboard(next) PROVE KbdInv'
  <1> DEFINE r == keyboard_readc(k, Bytes)
  <1>1. /\ heard' = [c |-> r.c, typed |-> Typed]
        /\ port' = IF port = <<>> THEN port ELSE Tail(port)
        /\ k' = IF r.c \in RebootKeys THEN Statics ELSE r.k
        /\ user' = IF r.c \in RebootKeys THEN NoModifiers ELSE Told
        /\ wire' = wire /\ held' = held
    BY Zenon DEF check_keyboard
  <1>2. /\ k \in Statuses /\ Agree(user, k.modifiers) /\ held \subseteq Keys
        /\ port \in Seq(Sent) /\ wire \in Seq(Sent) /\ OnWay(port \o wire, k.last_escape)
    BY SMTT(30) DEF KbdInv
  <1>3. CASE port = <<>>
    <2>1. Bytes = <<>>
      BY <1>3 DEF Bytes
    <2>2. r = [c |-> -1, k |-> k]
      BY <2>1, Zenon DEF keyboard_readc
    <2>3. r.c = -1 /\ r.k = k
      BY <2>2
    <2>4. -1 \notin RebootKeys
      BY DEF RebootKeys
    <2>5. Typed = -1 /\ Told = user
      BY <1>3, Zenon DEF Typed, Told
    <2> HIDE DEF r
    <2>6. k' = k /\ user' = user /\ port' = port /\ wire' = wire /\ held' = held
      BY <1>1, <1>3, <2>3, <2>4, <2>5, Zenon
    <2>7. heard'.c = heard'.typed
      BY <1>1, <2>3, <2>5, Zenon
    <2> QED  BY <2>6, <2>7, <1>2, Zenon DEF KbdInv, KeysRight
  <1>4. CASE port # <<>>
    <2> DEFINE e == port[1]
               q == port \o wire
    <2>1. Head(port) = e /\ Len(port) \in Nat \ {0} /\ DOMAIN port = 1 .. Len(port)
      BY <1>2, <1>4
    <2>2. Bytes # <<>> /\ Head(Bytes) = e.byte
      BY <2>1 DEF Bytes
    <2>3. ASSUME NEW S, NEW p \in Seq(S), NEW w \in Seq(S), p # <<>>
          PROVE  /\ p \o w # <<>> /\ (p \o w)[1] = p[1]
                 /\ Tail(p) \in Seq(S) /\ Tail(p) \o w = Tail(p \o w)
      BY <2>3
    <2>4. q # <<>> /\ q[1] = e /\ Tail(port) \in Seq(Sent) /\ Tail(port) \o wire = Tail(q)
      BY <1>2, <1>4, <2>3, ZenonT(60)
    <2>5. Entry(e, k.last_escape) /\ OnWay(Tail(port) \o wire, After(e))
      BY <1>2, <2>4, OnWayTail, Zenon
    <2> HIDE DEF e, q
    <2>6. /\ r.c = MeantBy(user, e) /\ r.k \in Statuses
          /\ r.k.last_escape = After(e)
          /\ Agree(ToldBy(user, e), r.k.modifiers)
          /\ e.byte = 224 => r.c = 0
      <3>1. k \in Statuses /\ Agree(user, k.modifiers)
        BY <1>2, Zenon
      <3>2. Bytes # <<>> /\ Head(Bytes) = e.byte /\ Entry(e, k.last_escape)
        BY <2>2, <2>5, Zenon
      <3>3. Entry(e, k.last_escape)
        BY <3>2, Zenon
      <3>4. ReadsAs(user, e, r)
        BY <3>1, <3>2, <3>3, ReadRight, Zenon
      <3> QED  BY <3>4, Zenon DEF ReadsAs, After
    <2>7. Typed = MeantBy(user, e) /\ Told = ToldBy(user, e)
      <3>1. CASE e.event = {}
        <4>1. Head(port).event = NoEvent
          BY <3>1, <2>1, Zenon DEF NoEvent
        <4>2. Typed = 0 /\ Told = user
          BY <4>1, <1>4, Zenon DEF Typed, Told
        <4>3. MeantBy(user, e) = 0 /\ ToldBy(user, e) = user
          BY <3>1, Zenon DEF MeantBy, ToldBy
        <4> QED  BY <4>2, <4>3, Zenon
      <3>2. CASE e.event # {}
        <4>1. Typed = Meant(user, CHOOSE x \in e.event : TRUE) /\ Told = Modified(user, CHOOSE x \in e.event : TRUE)
          BY <3>2, <1>4, <2>1, Zenon DEF Typed, Told, NoEvent
        <4>2. PICK x \in {CHOOSE x \in e.event : TRUE} : TRUE
          BY Zenon
        <4>3. Typed = Meant(user, x) /\ Told = Modified(user, x)
          BY <4>1, <4>2, Zenon
        <4>4. MeantBy(user, e) = Meant(user, x) /\ ToldBy(user, e) = Modified(user, x)
          BY <3>2, <4>2, Zenon DEF MeantBy, ToldBy
        <4> QED  BY <4>3, <4>4, Zenon
      <3> QED  BY <3>1, <3>2, Zenon
    <2> HIDE DEF r
    <2>8. heard'.c = heard'.typed
      BY <1>1, <2>6, <2>7, Zenon
    <2>9. port' = Tail(port) /\ port' \in Seq(Sent)
      BY <1>1, <1>4, <2>4, Zenon
    <2>10. CASE r.c \notin RebootKeys
      <3>1. k' = r.k /\ user' = ToldBy(user, e)
        BY <1>1, <2>7, <2>10, Zenon
      <3> QED  BY <3>1, <1>1, <1>2, <2>5, <2>6, <2>8, <2>9, Zenon DEF KbdInv, KeysRight
    <2>11. CASE r.c \in RebootKeys
      <3>1. r.c # 0
        BY SMTT(30), <2>11 DEF RebootKeys
      <3>2. After(e) = 0
        BY SMTT(30), <3>1, <2>6 DEF After
      <3>3. k' = Statics /\ user' = NoModifiers
        BY <1>1, <2>11, Zenon
      <3>4. Statics \in Statuses /\ Statics.modifiers = {} /\ Statics.last_escape = 0
        BY Zenon DEF Statics, Statuses
      <3>5. Agree(NoModifiers, {})
        BY Zenon DEF Agree, NoModifiers
      <3> QED  BY <3>2, <3>3, <3>4, <3>5, <1>1, <1>2, <2>5, <2>8, <2>9, Zenon DEF KbdInv, KeysRight
    <2> QED  BY <2>10, <2>11, Zenon
  <1> QED  BY <1>3, <1>4, Zenon

\* Every step keeps KbdInv.
LEMMA KbdStep == KbdInv /\ [Next]_vars => KbdInv'
  <1> SUFFICES ASSUME KbdInv, [Next]_vars PROVE KbdInv'  BY Zenon
  <1>1. ASSUME UNCHANGED kbd_vars PROVE KbdInv'
    BY <1>1, Zenon DEF kbd_vars, KbdInv, KeysRight
  <1>2. CASE \/ boot \/ LoadSegment \/ JumpToKernel \/ kernel_start \/ Begin \/ BeginAssertFail
             \/ PutNext \/ Finish \/ Snprintf \/ error_print_backtrace \/ UNCHANGED vars
    <2>1. UNCHANGED kbd_vars
      BY <1>2, Zenon DEF boot, LoadSegment, JumpToKernel, kernel_start, Begin, BeginAssertFail,
                         PutNext, Finish, Snprintf, error_print_backtrace, vars, Calm
    <2> QED  BY <2>1, <1>1, Zenon
  <1>3. CASE PressKey
    <2>1. PICK key \in Keys : Send(key, TRUE) /\ held' = held \cup {key}
      BY <1>3, Zenon DEF PressKey
    <2>2. UNCHANGED <<k, port, user, heard>>
      BY <1>3, Zenon DEF PressKey
    <2>3. held' \subseteq Keys
      BY <2>1, Zenon DEF KbdInv
    <2> QED  BY <2>1, <2>2, <2>3, SendKbd, Zenon
  <1>4. CASE ReleaseKey
    <2>0. held \subseteq Keys
      BY Zenon DEF KbdInv
    <2>1. PICK key \in Keys : Send(key, FALSE) /\ held' = held \ {key}
      BY <1>4, <2>0, Zenon DEF ReleaseKey
    <2>2. UNCHANGED <<k, port, user, heard>>
      BY <1>4, Zenon DEF ReleaseKey
    <2>3. held' \subseteq Keys
      BY <2>0, <2>1, Zenon
    <2> QED  BY <2>1, <2>2, <2>3, SendKbd, Zenon
  <1>5. CASE ByteArrives
    BY <1>5, ArriveKbd, Zenon
  <1>6. CASE Preempt \/ PageFault \/ Unexpected \/ sys_panic \/ KernelPageFault \/ fail
    <2>1. \E next \in {"run", "schedule", "panic", "fail"} : check_keyboard(next)
      BY <1>6, Zenon DEF Preempt, PageFault, Unexpected, sys_panic, KernelPageFault, fail
    <2> QED  BY <2>1, PollKbd, Zenon
  <1>7. CASE schedule
    <2>1. check_keyboard("schedule") \/ UNCHANGED kbd_vars
      BY <1>7, Zenon DEF schedule
    <2> QED  BY <2>1, <1>1, PollKbd, Zenon
  <1> QED  BY <1>2, <1>3, <1>4, <1>5, <1>6, <1>7, Zenon DEF Next

\* What keyboard_readc returns is what the user has typed, for every keyboard whose
\* keys are labelled as its table has them: whichever keys are held or sent again,
\* wherever between two bytes of a key the kernel polls, with the codes by which
\* the arrow keys undo shift, and after a reboot in between.
THEOREM KeysAreRight == Spec => []KeysRight
  <1>1. KbdInv => KeysRight
    BY Zenon DEF KbdInv
  <1> QED  BY <1>1, KbdInit, KbdStep, PTL DEF Spec

==============================================================================
